---- MODULE Spec2Model ----
(***************************************************************************)
(* Model of the SABER covariance core:                                     *)
(*   - saber::ErrorCovariance (hybrid combiner): constructor, doMultiply,  *)
(*     doRandomize, doInverseMultiply          (src/saber/oops)            *)
(*   - saber::SaberCentralBlockFactory registry (src/saber/blocks)         *)
(*                                                                         *)
(* Numbers.  A double is modelled as a fixed-point mantissa: the integer m *)
(* stands for m / One, so One stands for 1.0.  Sums and products of field  *)
(* values are exact on the values the model draws (the operators of a      *)
(* chain are linear).  std::sqrt is correctly rounded to the precision of  *)
(* its result format; here that format has one decimal digit, so a square  *)
(* root is exact for some weights (1.0, 4.0) and rounded for others        *)
(* (0.3, 0.7, 2.0), as in IEEE arithmetic.  The square root of a negative  *)
(* number is NaN, and NaN propagates through every operation.              *)
(*                                                                         *)
(* A field set (all fields, levels, points and times of a FieldSet4D) is   *)
(* a tuple of numbers.                                                     *)
(***************************************************************************)
EXTENDS Integers, Sequences, FiniteSets, TLC

\* The double 1.0 (the literal the weights are compared with).
One == 100

\* The value std::sqrt returns for a negative argument.
NaN == -1000000000

\* Largest number of components in a "Hybrid" configuration of the model.
MaxComp == 2

-----------------------------------------------------------------------------
(* Arithmetic on doubles and on field sets (oops/atlas, used by the code). *)

IsNaN(a) == a = NaN

\* a + b
Add(a, b) == IF IsNaN(a) \/ IsNaN(b) THEN NaN ELSE a + b

\* a * b, both fixed-point
Mul(a, b) == IF IsNaN(a) \/ IsNaN(b) THEN NaN ELSE (a * b) \div One

\* c * a for a pure coefficient c of a linear operator
Coef(c, a) == IF IsNaN(a) THEN NaN ELSE c * a

\* std::sqrt: NaN below zero, else the representable value nearest to the root
Sqrt(w) ==
  IF IsNaN(w) \/ w < 0 THEN NaN
  ELSE CHOOSE r \in {10 * k : k \in 0..100} :
         /\ (r = 0 \/ (2 * r - 10) * (2 * r - 10) <= 4 * w * One)
         /\ 4 * w * One < (2 * r + 10) * (2 * r + 10)

\* FieldSet4D::zero
Zero(f) == [i \in DOMAIN f |-> 0]

\* Mutant of ScalarMul: "+=" written for "*="
ScalarMul_PlusEquals(f, s) == [i \in DOMAIN f |-> Add(f[i], s)]

\* fset *= double
ScalarMul(f, s) == [i \in DOMAIN f |-> Mul(f[i], s)]

\* fset *= FieldSet
FieldMul(f, w) == [i \in DOMAIN f |-> Mul(f[i], w[i])]

\* dx += fset
FieldAdd(f, g) == [i \in DOMAIN f |-> Add(f[i], g[i])]

\* util::sqrtFieldSet: point-wise square root
SqrtFieldSet(f) == [i \in DOMAIN f |-> Sqrt(f[i])]

RECURSIVE RowSum(_, _, _)
RowSum(row, f, n) ==
  IF n = 0 THEN 0 ELSE Add(RowSum(row, f, n - 1), Coef(row[n], f[n]))

\* A linear operator, given by its matrix, applied to a field set
MatVec(M, f) == [i \in DOMAIN f |-> RowSum(M[i], f, Len(f))]

Transpose(M) == [i \in DOMAIN M |-> [j \in DOMAIN M |-> M[j][i]]]

RECURSIVE DotSum(_, _, _)
DotSum(f, g, n) ==
  IF n = 0 THEN 0
  ELSE Add(DotSum(f, g, n - 1),
           IF IsNaN(f[n]) \/ IsNaN(g[n]) THEN NaN ELSE f[n] * g[n])

\* Inner product of two field sets
Dot(f, g) == DotSum(f, g, Len(f))

HasNaN(f) == \E i \in DOMAIN f : IsNaN(f[i])

-----------------------------------------------------------------------------
(* Block chains.  A chain is named; its operators are those of the chain   *)
(* classes (SaberParametricBlockChain, SaberEnsembleBlockChain,            *)
(* SaberOuterBlockChain).                                                  *)

\* Names of the component chains a configuration can ask for
Chains == {"A", "B"}

\* Shared outer blocks of a configuration: absent, or the chain "T"
OuterChains == {"T"}

\* Chains whose constructor throws (ensemble missing, file malformed): a
\* component chain and a shared outer chain
FailingChains == {"X", "TX"}

\* Matrix of a chain's multiply (a symmetric linear operator)
ChainMatrix(c) ==
  IF c = "A" THEN << <<2, 1>>, <<1, 1>> >>
  ELSE << <<0, 1>>, <<1, 0>> >>

\* Matrix of the shared outer chain's forward transform
OuterMatrix(c) == << <<1, 1>>, <<0, 1>> >>

\* SaberBlockChainBase::multiply
ChainMultiply(c, fset) == MatVec(ChainMatrix(c), fset)

\* SaberBlockChainBase::randomize: fset is replaced by the sample drawn
ChainRandomize(c, fset, sample) == sample

\* SaberOuterBlockChain::applyOuterBlocks
ApplyOuterBlocks(c, fset) == MatVec(OuterMatrix(c), fset)

\* SaberOuterBlockChain::applyOuterBlocksAD: the adjoint of applyOuterBlocks
ApplyOuterBlocksAD(c, fset) == MatVec(Transpose(OuterMatrix(c)), fset)

-----------------------------------------------------------------------------
(* Inputs *)

\* Increments handed to doMultiply / doInverseMultiply
Inputs == { <<0, 0>>, <<One, 0>>, <<0, One>>, <<One, -2 * One>> }

\* Contents of the increment handed to doRandomize
RandomizeInputs == { <<One, -2 * One>> }

\* Samples a chain's randomize can draw
Samples == { <<One, 0>>, <<-One, 2 * One>> }

\* Contents of the weight file of the model: the weights 1.0 and 4.0
WeightFile == << One, 4 * One >>

\* "weight" section of a component: optional "value", optional "file"
WeightConf(hasValue, value, hasFile) ==
  [ hasValue |-> hasValue, value |-> IF hasValue THEN value ELSE 0,
    hasFile |-> hasFile, file |-> IF hasFile THEN WeightFile ELSE <<>> ]

\* One entry of "components": a weight and a covariance (chain) section
CmpConf(chain, weightConf) == [weight |-> weightConf, covariance |-> chain]

\* The entries the model draws the components from: no weight section,
\* the scalar weights 1.0, 0.3, 0.7, -1.0, a weight file without a scalar
\* weight, the scalar weight 4.0 with a weight file, and a component whose
\* chain cannot be built
CmpConfs ==
  { CmpConf("A", WeightConf(FALSE, 0, FALSE)),
    CmpConf("B", WeightConf(TRUE, One, FALSE)),
    CmpConf("A", WeightConf(TRUE, 30, FALSE)),
    CmpConf("B", WeightConf(TRUE, 70, FALSE)),
    CmpConf("A", WeightConf(TRUE, -One, FALSE)),
    CmpConf("A", WeightConf(FALSE, 0, TRUE)),
    CmpConf("B", WeightConf(TRUE, 4 * One, TRUE)),
    CmpConf("X", WeightConf(TRUE, 4 * One, FALSE)) }

\* Hybrid configurations: central block "Hybrid", optional shared outer blocks
HybridConfigs ==
  [ central : {"Hybrid"},
    outerBlocks : {"none", "TX"} \cup OuterChains,
    components : UNION { [1..n -> CmpConfs] : n \in 0..MaxComp } ]

\* Non-hybrid configurations: the whole configuration builds one chain
PlainConfigs ==
  [ central : Chains \cup {"X"}, outerBlocks : {"none"},
    components : {<<>>} ]

Configs == HybridConfigs \cup PlainConfigs

-----------------------------------------------------------------------------
(* State *)

VARIABLES
  config,                   \* the configuration the covariance is built from
  pc,                       \* "unbuilt", then "ready" or "failed"
  outerBlockChain_,         \* "none" (null pointer) or the shared outer chain
  hybridBlockChain_,        \* the component chains
  hybridScalarWeightSqrt_,  \* one double per component
  hybridFieldWeightSqrt_,   \* one field set per component, <<>> when empty
  op,                       \* the last operation that ran
  dxi_inc,                  \* its input increment
  dxo_inc,                  \* its output increment
  log                       \* the calls it made, in order

covVars == << config, pc, outerBlockChain_, hybridBlockChain_,
              hybridScalarWeightSqrt_, hybridFieldWeightSqrt_,
              op, dxi_inc, dxo_inc, log >>


\* The members of the ErrorCovariance object
Self ==
  [ outerBlockChain_ |-> outerBlockChain_,
    hybridBlockChain_ |-> hybridBlockChain_,
    hybridScalarWeightSqrt_ |-> hybridScalarWeightSqrt_,
    hybridFieldWeightSqrt_ |-> hybridFieldWeightSqrt_ ]

\* One logged call: the operation, the component index (0: none), its argument
Ev(o, jj, arg) == [op |-> o, jj |-> jj, arg |-> arg]

-----------------------------------------------------------------------------
(* ErrorCovariance::ErrorCovariance *)

\* weightConf.getDouble("value", 1.0)
WeightValue(weightConf) ==
  IF weightConf.hasValue THEN weightConf.value ELSE One

\* The weight field set of a component: read from file and square-rooted,
\* or left empty
WeightFset(weightConf) ==
  IF weightConf.hasFile THEN SqrtFieldSet(weightConf.file) ELSE <<>>

\* Mutant of Construct: the weights are stored without taking the square root
Construct_NoSqrt(conf) ==
  IF conf.central = "Hybrid"
  THEN [ outerBlockChain_ |-> conf.outerBlocks,
         hybridBlockChain_ |->
           [jj \in DOMAIN conf.components |-> conf.components[jj].covariance],
         hybridScalarWeightSqrt_ |->
           [jj \in DOMAIN conf.components |->
              WeightValue(conf.components[jj].weight)],
         hybridFieldWeightSqrt_ |->
           [jj \in DOMAIN conf.components |->
              conf.components[jj].weight.file] ]
  ELSE [ outerBlockChain_ |-> "none",
         hybridBlockChain_ |-> << conf.central >>,
         hybridScalarWeightSqrt_ |-> << One >>,
         hybridFieldWeightSqrt_ |-> << <<>> >> ]

\* The members after the constructor has run on configuration conf
Construct(conf) ==
  IF conf.central = "Hybrid"
  THEN [ outerBlockChain_ |-> conf.outerBlocks,
         hybridBlockChain_ |->
           [jj \in DOMAIN conf.components |-> conf.components[jj].covariance],
         hybridScalarWeightSqrt_ |->
           [jj \in DOMAIN conf.components |->
              Sqrt(WeightValue(conf.components[jj].weight))],
         hybridFieldWeightSqrt_ |->
           [jj \in DOMAIN conf.components |->
              WeightFset(conf.components[jj].weight)] ]
  ELSE [ outerBlockChain_ |-> "none",
         hybridBlockChain_ |-> << conf.central >>,
         hybridScalarWeightSqrt_ |-> << One >>,
         hybridFieldWeightSqrt_ |-> << <<>> >> ]

\* The members before the constructor has built anything
NoMembers ==
  [ outerBlockChain_ |-> "none",
    hybridBlockChain_ |-> << >>,
    hybridScalarWeightSqrt_ |-> << >>,
    hybridFieldWeightSqrt_ |-> << >> ]

\* The components of conf whose chain cannot be built
FailingComponents(conf) ==
  {jj \in DOMAIN conf.components :
     conf.components[jj].covariance \in FailingChains}

\* Mutant of ConstructorOp: a chain that cannot be built is left out and
\* the constructor carries on with the others
ConstructorOp_SkipFailed(conf) ==
  LET good == SelectSeq(conf.components,
                        LAMBDA cmp : cmp.covariance \notin FailingChains)
      kept == [conf EXCEPT !.components = good,
                           !.outerBlocks =
                              IF @ \in FailingChains THEN "none" ELSE @]
  IN IF conf.central \in FailingChains
     THEN [error |-> "none", members |-> NoMembers]
     ELSE [error |-> "none", members |-> Construct(kept)]

\* The constructor: the shared outer chain is built first, then, in the
\* order of "components", the weights and the chain of each component; the
\* exception of a chain constructor is not caught.  members is what had
\* been built when the constructor returned or threw.
ConstructorOp(conf) ==
  IF conf.central = "Hybrid"
  THEN IF conf.outerBlocks \in FailingChains
       THEN [error |-> "eckit::Exception", members |-> NoMembers]
       ELSE IF FailingComponents(conf) # {}
       THEN LET jj == CHOOSE j \in FailingComponents(conf) :
                        \A i \in FailingComponents(conf) : j <= i
                m == Construct([conf EXCEPT !.components =
                                             SubSeq(@, 1, jj)])
            IN [error |-> "eckit::Exception",
                members |-> [m EXCEPT !.hybridBlockChain_ =
                                        SubSeq(@, 1, jj - 1)]]
       ELSE [error |-> "none", members |-> Construct(conf)]
  ELSE IF conf.central \in FailingChains
       THEN [error |-> "eckit::Exception", members |-> NoMembers]
       ELSE [error |-> "none", members |-> Construct(conf)]

-----------------------------------------------------------------------------
(* ErrorCovariance::doMultiply *)

\* Mutant of ApplyWeight: the scalar weight is applied even when it is 1.0
ApplyWeight_NoSkip(self, jj, st) ==
  LET s1 == [fset |-> ScalarMul(st.fset, self.hybridScalarWeightSqrt_[jj]),
             log  |-> Append(st.log, Ev("scalarWeight", jj, st.fset))]
      s2 == IF self.hybridFieldWeightSqrt_[jj] # <<>>
            THEN [fset |-> FieldMul(s1.fset, self.hybridFieldWeightSqrt_[jj]),
                  log  |-> Append(s1.log, Ev("fieldWeight", jj, s1.fset))]
            ELSE s1
  IN s2

\* "Apply weight": the two conditional scalings of fset by the stored
\* square-root weights of component jj.  st is [fset, log].
ApplyWeight(self, jj, st) ==
  LET s1 == IF self.hybridScalarWeightSqrt_[jj] # One
            THEN [fset |-> ScalarMul(st.fset, self.hybridScalarWeightSqrt_[jj]),
                  log  |-> Append(st.log, Ev("scalarWeight", jj, st.fset))]
            ELSE st
      s2 == IF self.hybridFieldWeightSqrt_[jj] # <<>>
            THEN [fset |-> FieldMul(s1.fset, self.hybridFieldWeightSqrt_[jj]),
                  log  |-> Append(s1.log, Ev("fieldWeight", jj, s1.fset))]
            ELSE s1
  IN s2

\* Mutant of MultiplyComponent: the weight is not applied after the multiply
MultiplyComponent_OneWeight(self, jj, dxi) ==
  LET s0 == [fset |-> dxi, log |-> <<>>]
      s1 == ApplyWeight(self, jj, s0)
  IN [fset |-> ChainMultiply(self.hybridBlockChain_[jj], s1.fset),
      log  |-> Append(s1.log, Ev("multiply", jj, s1.fset))]

\* The body of the loop over B components, up to "Add component":
\* fset is a copy of dxi, weighted, multiplied, weighted again.
MultiplyComponent(self, jj, dxi) ==
  LET s0 == [fset |-> dxi, log |-> <<>>]
      s1 == ApplyWeight(self, jj, s0)
      s2 == [fset |-> ChainMultiply(self.hybridBlockChain_[jj], s1.fset),
             log  |-> Append(s1.log, Ev("multiply", jj, s1.fset))]
  IN ApplyWeight(self, jj, s2)

\* Mutant of MultiplyLoop: a component works on the running sum of the
\* components before it instead of its own copy of dxi
RECURSIVE MultiplyLoop_Chained(_, _, _, _)
MultiplyLoop_Chained(self, jj, dxi, acc) ==
  IF jj > Len(self.hybridBlockChain_) THEN acc
  ELSE LET c == MultiplyComponent(self, jj, IF jj = 1 THEN dxi ELSE acc.dxo)
       IN MultiplyLoop_Chained(self, jj + 1, dxi,
            [dxo |-> FieldAdd(acc.dxo, c.fset),
             log |-> (acc.log \o c.log) \o << Ev("add", jj, c.fset) >>])

\* The loop over B components from component jj on.  acc is [dxo, log].
RECURSIVE MultiplyLoop(_, _, _, _)
MultiplyLoop(self, jj, dxi, acc) ==
  IF jj > Len(self.hybridBlockChain_) THEN acc
  ELSE LET c == MultiplyComponent(self, jj, dxi)
       IN MultiplyLoop(self, jj + 1, dxi,
            [dxo |-> FieldAdd(acc.dxo, c.fset),
             log |-> (acc.log \o c.log) \o << Ev("add", jj, c.fset) >>])

\* Mutant of DoMultiplyOp: the shared outer chain is applied forward first
\* and its adjoint last
DoMultiplyOp_ForwardFirst(self, x) ==
  LET ad   == IF self.outerBlockChain_ # "none"
              THEN [dxo |-> ApplyOuterBlocks(self.outerBlockChain_, x),
                    log |-> << Ev("applyOuterBlocks", 0, x) >>]
              ELSE [dxo |-> x, log |-> <<>>]
      dxi  == ad.dxo
      loop == MultiplyLoop(self, 1, dxi, [dxo |-> Zero(dxi), log |-> ad.log])
  IN IF self.outerBlockChain_ # "none"
     THEN [dxo |-> ApplyOuterBlocksAD(self.outerBlockChain_, loop.dxo),
           log |-> Append(loop.log, Ev("applyOuterBlocksAD", 0, loop.dxo))]
     ELSE loop

\* Mutant of DoMultiplyOp: the shared outer chain is applied forward twice,
\* its adjoint never
DoMultiplyOp_NoAdjoint(self, x) ==
  LET ad   == IF self.outerBlockChain_ # "none"
              THEN [dxo |-> ApplyOuterBlocks(self.outerBlockChain_, x),
                    log |-> << Ev("applyOuterBlocksAD", 0, x) >>]
              ELSE [dxo |-> x, log |-> <<>>]
      dxi  == ad.dxo
      loop == MultiplyLoop(self, 1, dxi, [dxo |-> Zero(dxi), log |-> ad.log])
  IN IF self.outerBlockChain_ # "none"
     THEN [dxo |-> ApplyOuterBlocks(self.outerBlockChain_, loop.dxo),
           log |-> Append(loop.log, Ev("applyOuterBlocks", 0, loop.dxo))]
     ELSE loop

\* doMultiply on input x: the output increment and the calls made
DoMultiplyOp(self, x) ==
  LET ad   == IF self.outerBlockChain_ # "none"
              THEN [dxo |-> ApplyOuterBlocksAD(self.outerBlockChain_, x),
                    log |-> << Ev("applyOuterBlocksAD", 0, x) >>]
              ELSE [dxo |-> x, log |-> <<>>]
      dxi  == ad.dxo
      loop == MultiplyLoop(self, 1, dxi, [dxo |-> Zero(dxi), log |-> ad.log])
  IN IF self.outerBlockChain_ # "none"
     THEN [dxo |-> ApplyOuterBlocks(self.outerBlockChain_, loop.dxo),
           log |-> Append(loop.log, Ev("applyOuterBlocks", 0, loop.dxo))]
     ELSE loop

-----------------------------------------------------------------------------
(* ErrorCovariance::doRandomize *)

\* The loop over components from component jj on.  Each component gets a
\* copy of zeroFset, randomized by its chain and weighted once.
RECURSIVE RandomizeLoop(_, _, _, _, _)
RandomizeLoop(self, jj, zeroFset, samples, acc) ==
  IF jj > Len(self.hybridBlockChain_) THEN acc
  ELSE LET s0 == [fset |-> ChainRandomize(self.hybridBlockChain_[jj],
                                          zeroFset, samples[jj]),
                  log  |-> << Ev("randomize", jj, zeroFset) >>]
           s1 == ApplyWeight(self, jj, s0)
       IN RandomizeLoop(self, jj + 1, zeroFset, samples,
            [dxo |-> FieldAdd(acc.dxo, s1.fset),
             log |-> (acc.log \o s1.log) \o << Ev("add", jj, s1.fset) >>])

\* Mutant of DoRandomizeOp: the shared outer chain's adjoint is applied to
\* the sum before the forward transform, as doMultiply applies it to its input
DoRandomizeOp_WithAdjoint(self, x, samples) ==
  LET zeroFset == Zero(x)
      loop == RandomizeLoop(self, 1, zeroFset, samples,
                            [dxo |-> zeroFset, log |-> <<>>])
      ad   == IF self.outerBlockChain_ # "none"
              THEN [dxo |-> ApplyOuterBlocksAD(self.outerBlockChain_, loop.dxo),
                    log |-> Append(loop.log,
                                   Ev("applyOuterBlocksAD", 0, loop.dxo))]
              ELSE loop
  IN IF self.outerBlockChain_ # "none"
     THEN [dxo |-> ApplyOuterBlocks(self.outerBlockChain_, ad.dxo),
           log |-> Append(ad.log, Ev("applyOuterBlocks", 0, ad.dxo))]
     ELSE ad

\* doRandomize on the increment x, the chains drawing samples
DoRandomizeOp(self, x, samples) ==
  LET zeroFset == Zero(x)
      loop == RandomizeLoop(self, 1, zeroFset, samples,
                            [dxo |-> zeroFset, log |-> <<>>])
  IN IF self.outerBlockChain_ # "none"
     THEN [dxo |-> ApplyOuterBlocks(self.outerBlockChain_, loop.dxo),
           log |-> Append(loop.log, Ev("applyOuterBlocks", 0, loop.dxo))]
     ELSE loop

-----------------------------------------------------------------------------
(* ErrorCovariance::doInverseMultiply *)

\* Iteration cap handed to GMRESR
GMRESRMaxIter == 10

\* doInverseMultiply on input x: dxo is zeroed, then GMRESR solves for it
\* with the covariance as operator; sol is the solver's answer.
DoInverseMultiplyOp(self, x, sol) ==
  [dxo |-> sol,
   log |-> << Ev("zero", 0, x), Ev("GMRESR", GMRESRMaxIter, Zero(x)) >>]

-----------------------------------------------------------------------------
(* SaberCentralBlockFactory: the registry of central block makers *)

\* Block names makers are registered under and blocks are asked for by
Names == {"ID", "BUMP_NICAS", "spectral correlation"}

\* Number of maker objects the model constructs
MaxMakers == 4

VARIABLES
  makers,      \* getMakers(): block name -> maker (makers are numbered 1, 2, ..)
  nextMaker,   \* the number the next maker object gets
  fcall        \* the last factory call: function, name, error, makers invoked

facVars == << makers, nextMaker, fcall >>

Call(fn, name, error, invoked) ==
  [fn |-> fn, name |-> name, error |-> error, invoked |-> invoked]

\* Mutant of Register: the registry is a list that must stay sorted by
\* maker, a maker older than a registered one is refused
Register_Ordered(reg, name, this) ==
  IF name \in DOMAIN reg \/ \E n \in DOMAIN reg : reg[n] > this
  THEN [makers |-> reg, error |-> "eckit::Exception"]
  ELSE [makers |-> [n \in DOMAIN reg \cup {name} |->
                      IF n = name THEN this ELSE reg[n]],
        error |-> "none"]

\* Mutant of Register: no check for a name that is already registered
Register_Overwrite(reg, name, this) ==
  [makers |-> [n \in DOMAIN reg \cup {name} |->
                 IF n = name THEN this ELSE reg[n]],
   error |-> "none"]

\* SaberCentralBlockFactory::SaberCentralBlockFactory(name), run for the
\* maker object this
Register(reg, name, this) ==
  IF name \in DOMAIN reg
  THEN [makers |-> reg, error |-> "eckit::Exception"]
  ELSE [makers |-> [n \in DOMAIN reg \cup {name} |->
                      IF n = name THEN this ELSE reg[n]],
        error |-> "none"]

\* Mutant of Create: an unknown name falls back to some registered maker
Create_Fallback(reg, id) ==
  IF id \notin DOMAIN reg /\ DOMAIN reg = {}
  THEN Call("create", id, "eckit::UserError", <<>>)
  ELSE Call("create", id, "none",
            << [maker |-> IF id \in DOMAIN reg THEN reg[id]
                          ELSE reg[CHOOSE n \in DOMAIN reg : TRUE],
                method |-> "make"] >>)

\* SaberCentralBlockFactory::create: the maker found makes the block
Create(reg, id) ==
  IF id \notin DOMAIN reg
  THEN Call("create", id, "eckit::UserError", <<>>)
  ELSE Call("create", id, "none", << [maker |-> reg[id], method |-> "make"] >>)

\* SaberCentralBlockFactory::createParameters
CreateParameters(reg, name) ==
  IF name \notin DOMAIN reg
  THEN Call("createParameters", name, "std::runtime_error", <<>>)
  ELSE Call("createParameters", name, "none",
            << [maker |-> reg[name], method |-> "makeParameters"] >>)

-----------------------------------------------------------------------------
(* saber::spectralb::SpectralCorrelation: a central block that applies     *)
(* spectral vertical correlations, and SaberCentralBlockBase::adjointTest  *)

\* Largest truncation N of the spectral function space in the model
MaxTrunc == 1

\* Number of levels of every field of the model
levels == 2

\* The value of x / 0.0 for x # 0 (the sign plays no part in the model)
Inf == 2000000000

\* The variables of the central block
CentralVars == << "psi", "chi" >>

\* a / n for a count n > 0, rounded to the nearest representable value
DivN(a, n) ==
  IF IsNaN(a) THEN NaN
  ELSE IF a >= 0 THEN (2 * a + n) \div (2 * n)
       ELSE 0 - ((n - 2 * a) \div (2 * n))

\* a / b, both fixed-point and finite or NaN: 0/0 is NaN, x/0 infinite
Quot(a, b) ==
  IF IsNaN(a) \/ IsNaN(b) THEN NaN
  ELSE IF b = 0 THEN (IF a = 0 THEN NaN ELSE Inf)
  ELSE LET q == DivN((IF a >= 0 THEN a ELSE 0 - a) * One,
                     IF b >= 0 THEN b ELSE 0 - b)
       IN IF (a >= 0) = (b >= 0) THEN q ELSE 0 - q

\* std::abs
Abs(a) == IF IsNaN(a) \/ a >= 0 THEN a ELSE 0 - a

\* a < b on doubles: false when one of them is NaN
Less(a, b) == ~IsNaN(a) /\ ~IsNaN(b) /\ a < b

\* Mutant of TotalWavenumbers: the total wavenumber advances with every
\* coefficient instead of every pair of a real and an imaginary one
RECURSIVE TotalWavenumbers_PerCoefficient(_, _, _)
TotalWavenumbers_PerCoefficient(zonal, jm, N) ==
  IF jm > Len(zonal) THEN << >>
  ELSE [k \in 1..(2 * (N - zonal[jm] + 1)) |->
          IF zonal[jm] + (k - 1) <= N THEN zonal[jm] + (k - 1) ELSE N]
       \o TotalWavenumbers_PerCoefficient(zonal, jm + 1, N)

\* The total wavenumber n1 of each spectral coefficient of a field, in the
\* order of the loops over jm, n1 and img
RECURSIVE TotalWavenumbers(_, _, _)
TotalWavenumbers(zonal, jm, N) ==
  IF jm > Len(zonal) THEN << >>
  ELSE [k \in 1..(2 * (N - zonal[jm] + 1)) |-> zonal[jm] + (k - 1) \div 2]
       \o TotalWavenumbers(zonal, jm + 1, N)

\* Sum over c = 1..n of vertCovView(n1, r, c) * col[c] / norm
RECURSIVE ColumnSum(_, _, _, _)
ColumnSum(row, col, norm, n) ==
  IF n = 0 THEN 0
  ELSE Add(ColumnSum(row, col, norm, n - 1),
           DivN(Mul(row[n], col[n]), norm))

\* Mutant of Convolve: the column is not divided by norm
Convolve_NoNorm(vertCov, col, n1) ==
  [r \in 1..levels |-> ColumnSum(vertCov[n1][r], col, 1, levels)]

\* The 1D convolution of the column col of total wavenumber n1 with the
\* vertical correlations vertCov of one variable
Convolve(vertCov, col, n1) ==
  LET norm == (2 * n1 + 1) * Cardinality(DOMAIN vertCov)
  IN [r \in 1..levels |-> ColumnSum(vertCov[n1][r], col, norm, levels)]

\* The lookup fset[var] of a field that a field set may not hold
HasField(fset, var) == var \in DOMAIN fset

\* Mutant of MultiplyVars: multiply checks that the correlations are read
\* before anything else
RECURSIVE MultiplyVars_Checked(_, _, _, _, _)
MultiplyVars_Checked(self, N, zonal, fset, i) ==
  IF DOMAIN self.spectralVerticalCorrelations_ = {}
  THEN [fieldSet |-> fset, error |-> "eckit::Exception"]
  ELSE IF i > Len(self.activeVars_)
  THEN [fieldSet |-> fset, error |-> "none"]
  ELSE LET var == self.activeVars_[i]
           n == TotalWavenumbers(zonal, 1, N)
           spf == [k \in DOMAIN n |->
                     Convolve(self.spectralVerticalCorrelations_[var],
                              fset[var][k], n[k])]
       IN MultiplyVars_Checked(self, N, zonal,
                               [fset EXCEPT ![var] = spf], i + 1)

\* The loop of multiply over the active variables from the i-th on: the
\* fields are updated in place, a failing lookup ends the call
RECURSIVE MultiplyVars(_, _, _, _, _)
MultiplyVars(self, N, zonal, fset, i) ==
  IF i > Len(self.activeVars_)
  THEN [fieldSet |-> fset, error |-> "none"]
  ELSE LET var == self.activeVars_[i]
       IN IF ~HasField(fset, var)
             \/ ~HasField(self.spectralVerticalCorrelations_, var)
          THEN [fieldSet |-> fset, error |-> "eckit::Exception"]
          ELSE LET n == TotalWavenumbers(zonal, 1, N)
                   spf == [k \in DOMAIN n |->
                             Convolve(self.spectralVerticalCorrelations_[var],
                                      fset[var][k], n[k])]
               IN MultiplyVars(self, N, zonal,
                               [fset EXCEPT ![var] = spf], i + 1)

\* SpectralCorrelation::multiply
SpectralMultiply(self, N, zonal, fset) == MultiplyVars(self, N, zonal, fset, 1)

\* Mutant of SpectralRandomize: randomize falls back to multiply
SpectralRandomize_Multiply(self, N, zonal, fset) ==
  MultiplyVars(self, N, zonal, fset, 1) @@ [guidance |-> FALSE]

\* SpectralCorrelation::randomize: the guidance is logged, then the
\* exception is thrown
SpectralRandomize(self, N, zonal, fset) ==
  [fieldSet |-> fset, guidance |-> TRUE,
   error |-> "eckit::FunctionalityNotSupported"]

\* SpectralCorrelation::directCalibration
DirectCalibration(self, ens) ==
  [self |-> self, guidance |-> TRUE,
   error |-> "eckit::FunctionalityNotSupported"]

\* The 2x2 covariance matrices the files of the model hold
CovI == << << One, 0 >>, << 0, One >> >>
CovS == << << 4 * One, One >>, << One, One >> >>
CovU == << << One, One >>, << 0, One >> >>

\* Contents of a covariance file: a matrix per variable, the same in
\* every total wavenumber bin
CovFiles ==
  { [psi |-> CovI, chi |-> CovI],
    [psi |-> CovI, chi |-> CovS],
    [psi |-> CovS, chi |-> CovU] }

\* Configurations of the block: the calibration section ("none", present
\* "withoutRead" or "withRead" parameters) and the standard read section
BlockParams ==
  { [calibrationParams |-> c, readParams |-> r] :
      c \in {"none", "withoutRead", "withRead"}, r \in BOOLEAN } \
  { [calibrationParams |-> "withoutRead", readParams |-> FALSE] }

\* getActiveVars: the active variables are central variables
ActiveVarsChoices == { << >>, << "psi" >>, CentralVars }

\* The zonal wavenumbers this process holds, for the truncation N
ZonalChoices(N) == { [m \in 1..(N + 1) |-> m - 1], << N >> }

\* The blocks of the model for the truncation N: the zonal wavenumbers of
\* the process, the parameters, the active variables and the rank
BlockSetups(N) ==
  LET all == [m \in 1..(N + 1) |-> m - 1]
      setup(z, c, r, a, k) ==
        [zonal_wavenumbers |-> z,
         params |-> [calibrationParams |-> c, readParams |-> r],
         activeVars |-> a, rank |-> k]
  IN IF N = 0
     THEN { setup(all, "none", TRUE, << "psi" >>, 0),
            setup(all, "none", FALSE, CentralVars, 1) }
     ELSE { setup(all, "withRead", TRUE, CentralVars, 0),
            setup(<< N >>, "withoutRead", TRUE, << "psi" >>, 1),
            setup(all, "none", TRUE, << >>, 0) }

\* createVerticalSD: the standard deviation of each level in each bin
CreateVerticalSD(cov) ==
  [n \in DOMAIN cov |-> [r \in 1..levels |-> Sqrt(cov[n][r][r])]]

\* createSpectralCorrelations: the covariances of each bin divided by the
\* standard deviations of their two levels
CreateSpectralCorrelations(cov, sds) ==
  [n \in DOMAIN cov |->
     [r \in 1..levels |->
        [c \in 1..levels |->
           Quot(cov[n][r][c], Mul(sds[n][r], sds[n][c]))]]]

\* Mutant of ReadSection: without calibration read parameters the
\* standard read section is used
ReadSection_FallBack(params) ==
  IF params.calibrationParams = "withRead" THEN "calibration read"
  ELSE (IF params.readParams THEN "read" ELSE "undefined")

\* The section read() takes its file parameters from; "undefined" stands
\* for the dereference of an absent read section
ReadSection(params) ==
  IF params.calibrationParams # "none"
  THEN (IF params.calibrationParams = "withRead" THEN "calibration read"
        ELSE "default")
  ELSE (IF params.readParams THEN "read" ELSE "undefined")

\* SpectralCorrelation::read: one covariance field per active variable is
\* read from the file (ok: the file can be read), then the stored
\* correlations are cleared and replaced
SpectralRead(self, N, file, ok) ==
  IF ~ok THEN [self |-> self, error |-> "eckit::Exception"]
  ELSE [self |->
          [self EXCEPT !.spectralVerticalCorrelations_ =
             [v \in {self.activeVars_[i] : i \in DOMAIN self.activeVars_} |->
                LET cov == [n \in 0..N |-> file[v]]
                IN CreateSpectralCorrelations(cov, CreateVerticalSD(cov))]],
        error |-> "none"]

\* util::dotProductFieldSets over the variables vars from the i-th on
RECURSIVE DotVars(_, _, _, _)
DotVars(f, g, vars, i) ==
  IF i > Len(vars) THEN 0
  ELSE LET v == vars[i]
           flat(h) == [k \in 1..(levels * Len(h[v])) |->
                         h[v][((k - 1) \div levels) + 1][((k - 1) % levels) + 1]]
           a == flat(f)
           b == flat(g)
       IN Add(DivN(DotSum(a, b, Len(a)), One), DotVars(f, g, vars, i + 1))

\* a - b on doubles
Sub(a, b) == IF IsNaN(a) \/ IsNaN(b) THEN NaN ELSE a - b

\* Mutant of AdjointTestPasses: the difference is not divided by the mean
AdjointTestPasses_Absolute(dp1, dp2, adjointTolerance) ==
  Less(Abs(Sub(dp1, dp2)), adjointTolerance)

\* The test of adjointTest:
\* std::abs(dp1-dp2)/std::abs(0.5*(dp1+dp2)) < adjointTolerance
AdjointTestPasses(dp1, dp2, adjointTolerance) ==
  Less(Quot(Abs(Sub(dp1, dp2)), Abs(DivN(Add(dp1, dp2), 2))),
       adjointTolerance)

\* Mutant of AdjointTestOp: the dot products are taken with the field sets
\* themselves, which multiply has changed, instead of the saved copies
AdjointTestOp_NoCopy(self, N, zonal, vars, adjointTolerance, fset1, fset2) ==
  LET m1 == SpectralMultiply(self, N, zonal, fset1)
      m2 == SpectralMultiply(self, N, zonal, fset2)
      dp1 == DotVars(m1.fieldSet, m2.fieldSet, vars, 1)
      dp2 == DotVars(m2.fieldSet, m1.fieldSet, vars, 1)
      drawn == << "random 1", "random 2", "copy 1", "copy 2" >>
  IN IF m1.error # "none"
     THEN [dp1 |-> 0, dp2 |-> 0, error |-> m1.error, test |-> "none",
           steps |-> drawn \o << "multiply 1" >>]
     ELSE IF m2.error # "none"
     THEN [dp1 |-> 0, dp2 |-> 0, error |-> m2.error, test |-> "none",
           steps |-> drawn \o << "multiply 1", "multiply 2" >>]
     ELSE [dp1 |-> dp1, dp2 |-> dp2,
           error |-> IF AdjointTestPasses(dp1, dp2, adjointTolerance)
                     THEN "none"
                     ELSE "eckit::Exception: Adjoint test failure for block",
           test |-> IF AdjointTestPasses(dp1, dp2, adjointTolerance)
                    THEN "passed" ELSE "failed",
           steps |-> drawn \o << "multiply 1", "multiply 2",
                                 "dot 1", "dot 2" >>]

\* Mutant of AdjointTestOp: a failing test is logged and the call returns
AdjointTestOp_Warn(self, N, zonal, vars, adjointTolerance, fset1, fset2) ==
  LET m1 == SpectralMultiply(self, N, zonal, fset1)
      m2 == SpectralMultiply(self, N, zonal, fset2)
      dp1 == DotVars(m1.fieldSet, fset2, vars, 1)
      dp2 == DotVars(m2.fieldSet, fset1, vars, 1)
  IN [dp1 |-> dp1, dp2 |-> dp2, error |-> "none",
      test |-> IF AdjointTestPasses(dp1, dp2, adjointTolerance)
               THEN "passed" ELSE "failed",
      steps |-> << "random 1", "random 2", "copy 1", "copy 2",
                   "multiply 1", "multiply 2", "dot 1", "dot 2" >>]

\* SaberCentralBlockBase::adjointTest of the block self, with the random
\* field sets fset1 and fset2 drawn by createRandomFieldSet
AdjointTestOp(self, N, zonal, vars, adjointTolerance, fset1, fset2) ==
  LET fset1Save == fset1
      fset2Save == fset2
      m1 == SpectralMultiply(self, N, zonal, fset1)
      m2 == SpectralMultiply(self, N, zonal, fset2)
      dp1 == DotVars(m1.fieldSet, fset2Save, vars, 1)
      dp2 == DotVars(m2.fieldSet, fset1Save, vars, 1)
      drawn == << "random 1", "random 2", "copy 1", "copy 2" >>
  IN IF m1.error # "none"
     THEN [dp1 |-> 0, dp2 |-> 0, error |-> m1.error, test |-> "none",
           steps |-> drawn \o << "multiply 1" >>]
     ELSE IF m2.error # "none"
     THEN [dp1 |-> 0, dp2 |-> 0, error |-> m2.error, test |-> "none",
           steps |-> drawn \o << "multiply 1", "multiply 2" >>]
     ELSE IF AdjointTestPasses(dp1, dp2, adjointTolerance)
     THEN [dp1 |-> dp1, dp2 |-> dp2, error |-> "none", test |-> "passed",
           steps |-> drawn \o << "multiply 1", "multiply 2",
                                 "dot 1", "dot 2" >>]
     ELSE [dp1 |-> dp1, dp2 |-> dp2,
           error |-> "eckit::Exception: Adjoint test failure for block",
           test |-> "failed",
           steps |-> drawn \o << "multiply 1", "multiply 2",
                                 "dot 1", "dot 2" >>]

\* copySpectralFieldSet: a copy that shares nothing with the original
CopySpectralFieldSet(fset) == fset

\* gatherSumSpectralFieldSet: on the root the field set becomes the sum
\* over the processes (others: the sum of the other processes' field sets)
GatherSum(fset, others, rk, root) ==
  IF rk # root THEN fset
  ELSE [v \in DOMAIN fset |->
          [n \in DOMAIN fset[v] |->
             [r \in 1..levels |->
                [c \in 1..levels |-> Add(fset[v][n][r][c], others[v][n][r][c])]]]]

\* atlasArrayWriteHeader, then atlasArrayWriteData for each field
FileWrites(activeVars, toWrite) ==
  << [op |-> "header", field |-> "", data |-> << >>] >> \o
  [t \in DOMAIN activeVars |->
     [op |-> "data", field |-> activeVars[t],
      data |-> toWrite[activeVars[t]]]]

\* Mutant of WritesFile: every process writes the file
WritesFile_AllRanks(rk, root) == TRUE

\* if (oops::mpi::world().rank() == root)
WritesFile(rk, root) == rk = root

\* Mutant of SpectralWrite: the stored correlations are gathered in place
SpectralWrite_InPlace(self, params, rk, others, ub) ==
  LET gathered == GatherSum(self.spectralVerticalCorrelations_, others, rk, 0)
  IN [self |-> [self EXCEPT !.spectralVerticalCorrelations_ = gathered],
      file |-> IF rk = 0 /\ DOMAIN gathered # {}
               THEN FileWrites(self.activeVars_, gathered) ELSE << >>,
      error |-> IF DOMAIN gathered = {} THEN "eckit::Exception" ELSE "none",
      steps |-> << "copy", "gather" >>]

\* SpectralCorrelation::write on the process of rank rk.  Without a
\* calibration section the write parameters are read through an absent
\* optional: the call aborts or goes on with arbitrary parameters (ub)
SpectralWrite(self, params, rk, others, ub) ==
  IF params.calibrationParams = "none" /\ ub = "abort"
  THEN [self |-> self, file |-> << >>, error |-> "abort", steps |-> << >>]
  ELSE LET root == 0
           copied == CopySpectralFieldSet(self.spectralVerticalCorrelations_)
           spectralVertCovToWrite == GatherSum(copied, others, rk, root)
       IN IF DOMAIN spectralVertCovToWrite = {}
          THEN [self |-> self, file |-> << >>, error |-> "eckit::Exception",
                steps |-> << "copy", "gather" >>]
          ELSE [self |-> self,
                file |-> IF WritesFile(rk, root)
                         THEN FileWrites(self.activeVars_,
                                         spectralVertCovToWrite)
                         ELSE << >>,
                error |-> "none",
                steps |-> << "copy", "gather" >>
                          \o (IF WritesFile(rk, root)
                              THEN << "header", "data" >>
                              ELSE << >>)]

\* Field sets handed to multiply, randomize and adjointTest: every
\* central variable with n spectral coefficients of two levels
FieldInputs(n) ==
  { [psi |-> [k \in 1..n |-> << 0, 0 >>],
     chi |-> [k \in 1..n |-> << 0, 0 >>]],
    [psi |-> [k \in 1..n |-> << 6 * One, -3 * One >>],
     chi |-> [k \in 1..n |-> << k * One, 2 * One >>]],
    [psi |-> [k \in 1..n |-> << One, k * One >>],
     chi |-> [k \in 1..n |-> << -2 * One, 0 >>]] }

\* Number of processes of the run
NRanks == 2

\* Number of processes besides the one of the model
OtherRanks == NRanks - 1

\* Tolerances of the adjoint test: 0.1 and 3.0
Tolerances == { One \div 10, 3 * One }

VARIABLES
  truncation,                     \* specFunctionSpace_.truncation()
  zonal_wavenumbers,              \* specFunctionSpace_.zonal_wavenumbers()
  params_,                        \* the block's parameters
  activeVars_,                    \* the active variables
  spectralVerticalCorrelations_,  \* variable -> bin -> level x level matrix
  rank,                           \* oops::mpi::world().rank()
  fieldSet,                       \* the argument of the last call, after it
  bcall,                          \* the last call: function, argument, outcome
  file                            \* the writes to the file, in order

blkVars == << truncation, zonal_wavenumbers, params_, activeVars_,
              spectralVerticalCorrelations_, rank, fieldSet, bcall, file >>

\* The block object
Block ==
  [activeVars_ |-> activeVars_,
   spectralVerticalCorrelations_ |-> spectralVerticalCorrelations_]

\* Number of spectral coefficients of a field on this process
NbCoefficients == Len(TotalWavenumbers(zonal_wavenumbers, 1, truncation))

\* A call of the block: function, argument, error raised, whether the
\* guidance was logged, and what the function reports
BCall(fn, arg, error, guidance, info) ==
  [fn |-> fn, arg |-> arg, error |-> error, guidance |-> guidance,
   info |-> info]

NoInfo == [dp1 |-> 0, dp2 |-> 0, tolerance |-> 0, test |-> "none",
           steps |-> << >>, section |-> "none"]

-----------------------------------------------------------------------------
(* SpectralCorrelation::write on all the processes of the run *)

Ranks == 0..(NRanks - 1)

VARIABLES
  wpc,          \* process -> where it is in write()
  wblock,       \* process -> its block (active variables, correlations)
  toWrite,      \* process -> its spectralVertCovToWrite
  arrived,      \* the processes that have called the gather
  wfile,        \* the writes to the file, in order, with the process
  wsteps        \* process -> the steps of write() it has taken

wrVars == << wpc, wblock, toWrite, arrived, wfile, wsteps >>

\* The sum of the field sets f[r] of the processes r of S
RECURSIVE SumOver(_, _)
SumOver(f, S) ==
  IF S = {} THEN << >>
  ELSE LET r == CHOOSE x \in S : TRUE
       IN IF S = {r} THEN f[r]
          ELSE GatherSum(f[r], SumOver(f, S \ {r}), 0, 0)

\* No process has called write()
WrIdle ==
  /\ wpc = [r \in Ranks |-> "idle"]
  /\ wblock = [r \in Ranks |->
                 [activeVars_ |-> << >>,
                  spectralVerticalCorrelations_ |-> << >>]]
  /\ toWrite = [r \in Ranks |-> << >>]
  /\ arrived = {}
  /\ wfile = << >>
  /\ wsteps = [r \in Ranks |-> << >>]

-----------------------------------------------------------------------------
(* gsi_covariance_mod: the checks of create and multiply that every field  *)
(* the GSI B error needs is in the first guess / in the increment          *)

\* Largest number of time slots (ntimes) in the model
MaxTimes == 2

\* gsi_metguess_get: the rank-2 and rank-3 fields of the GSI met-guess
MetGuess2d == << "ps", "z" >>
MetGuess3d == << "tv", "q" >>

\* cvars2d, cvars3d (control vector) and svars2d, svars3d (state vector)
GVars2d(cv) == IF cv THEN << "ps", "ts" >> ELSE << "ps" >>
GVars3d(cv) == IF cv THEN << "sf", "tv" >> ELSE << "sf", "tv", "prse" >>

\* An entry of tbdvars / needvrs: 'filled-'//name, 'unfilled-'//name or
\* the bare name
Tbd(prefix, name) == [prefix |-> prefix, name |-> name]

\* needvrs(:)(1:6) /= 'filled'
NotFilled(e) == e.prefix # "filled-"

GsiEvent(o, slot, entry) == [op |-> o, slot |-> slot, entry |-> entry]

\* Mutant of CheckVars: the pass aborts at the first field it does not find
RECURSIVE CheckVars_AbortAtFirst(_, _, _, _, _)
CheckVars_AbortAtFirst(names, present, ii, iv, acc) ==
  IF iv > Len(names) \/ (acc.log # << >> /\ acc.log[Len(acc.log)].op = "abort")
  THEN acc
  ELSE LET e == IF names[iv] \in present THEN Tbd("filled-", names[iv])
                ELSE Tbd("", names[iv])
       IN CheckVars_AbortAtFirst(names, present, ii, iv + 1,
            [tbd |-> [acc.tbd EXCEPT ![iv] = e],
             log |-> acc.log \o << GsiEvent("check", ii, e) >>
                     \o (IF names[iv] \in present THEN << >>
                         ELSE << GsiEvent("abort", ii, e) >>)])

\* The loops over the rank-2 and rank-3 names of one time slot ii: the
\* entry of each name becomes 'filled-'//name when get_rank2_ finds the
\* field in the field set of the slot and the bare name when not
RECURSIVE CheckVars(_, _, _, _, _)
CheckVars(names, present, ii, iv, acc) ==
  IF iv > Len(names) THEN acc
  ELSE LET e == IF names[iv] \in present THEN Tbd("filled-", names[iv])
                ELSE Tbd("", names[iv])
       IN CheckVars(names, present, ii, iv + 1,
                    [tbd |-> [acc.tbd EXCEPT ![iv] = e],
                     log |-> Append(acc.log, GsiEvent("check", ii, e))])

\* The loop over the time slots from ii on
RECURSIVE CheckSlots(_, _, _, _, _)
CheckSlots(names, fields, ii, ntimes, acc) ==
  IF ii > ntimes THEN acc
  ELSE CheckSlots(names, fields, ii + 1, ntimes,
                  CheckVars(names, fields[ii], ii, 1, acc))

\* if (any(need(:)(1:6)/='filled')): every entry is printed, then
\* abor1_ftn is called
Report(need, acc, message) ==
  IF \E i \in DOMAIN need : NotFilled(need[i])
  THEN [tbd |-> need,
        log |-> acc.log
                \o [i \in DOMAIN need |-> GsiEvent("print", 0, need[i])]
                \o << GsiEvent("abort", 0, Tbd(message, "")) >>]
  ELSE [tbd |-> need, log |-> acc.log]

Aborted(r) == r.log # << >> /\ r.log[Len(r.log)].op = "abort"

\* gsiguess_bkgcov_init(tbdvars): the fields of the set constructed that
\* the first guess lacks are constructed
BkgcovInit(tbd, constructed) ==
  [i \in DOMAIN tbd |->
     IF tbd[i].prefix = "" /\ tbd[i].name \in constructed
     THEN Tbd("filled-", tbd[i].name) ELSE tbd[i]]

\* create, from the initialisation of the background fields on; no field
\* is looked up when the background is mocked
GsiCreate(ntimes, firstguess, bkgmock, constructed) ==
  IF bkgmock THEN [tbd |-> << >>, log |-> << >>]
  ELSE LET names == MetGuess2d \o MetGuess3d
           checked == CheckSlots(names, firstguess, 1, ntimes,
                        [tbd |-> [i \in DOMAIN names |-> Tbd("null", "")],
                         log |-> << >>])
       IN Report(BkgcovInit(checked.tbd, constructed), checked,
                 "missing fields in fg")

\* cvfix_: the virtual temperature is recovered; the skin temperature
\* branch marks the entries named 'sst'
Cvfix(need, which) ==
  LET fixTv == IF \E i \in DOMAIN need : need[i] = Tbd("", "tv")
               THEN [i \in DOMAIN need |->
                       IF need[i] = Tbd("", "tv") THEN Tbd("filled-", "tv")
                       ELSE need[i]]
               ELSE need
  IN IF \E i \in DOMAIN fixTv : fixTv[i] = Tbd("", "ts")
     THEN [i \in DOMAIN fixTv |->
             IF fixTv[i] = Tbd("", "sst") THEN Tbd("filled-", "sst")
             ELSE fixTv[i]]
     ELSE fixTv

\* svfix_: the pressure is left to GSI, the virtual temperature recovered
Svfix(need, which) ==
  [i \in DOMAIN need |->
     IF need[i] = Tbd("", "prse") THEN Tbd("filled-", "prse")
     ELSE IF need[i] = Tbd("", "tv") THEN Tbd("filled-", "tv")
     ELSE need[i]]

\* multiply: the fields are converted and checked ('adm'), the B error
\* operator is applied, the fields are converted back and checked ('tlm')
GsiMultiply(cv, ntimes, fields) ==
  LET names == GVars2d(cv) \o GVars3d(cv)
      checked == CheckSlots(names, fields, 1, ntimes,
                   [tbd |-> [i \in DOMAIN names |->
                               Tbd("unfilled-", names[i])],
                    log |-> << >>])
      tbdvars == checked.tbd
      fix(which) == IF cv THEN Cvfix(tbdvars, which) ELSE Svfix(tbdvars, which)
      adm == Report(fix("adm"), checked, "missing fields in cv(adm)")
  IN IF Aborted(adm) THEN adm
     ELSE Report(fix("tlm"),
                 [tbd |-> tbdvars,
                  log |-> Append(adm.log,
                                 GsiEvent("B", 0, Tbd("", "")))],
                 "missing fields in cv(tlm)")

\* The fields a field set of the model can lack
GsiFieldSets(names) ==
  LET all == {names[i] : i \in DOMAIN names}
  IN { all, all \ {"ps"}, all \ {"tv"}, all \ {"ps", "q"},
       all \ {"ps", "sf"}, all \ {"ts", "sf"}, all \ {"z", "q", "tv"} }

VARIABLES
  gsi,     \* the gsi_covariance object: created, cv, aborted
  gcall    \* the last call: function, arguments, entries and events

gsiVars == << gsi, gcall >>

GsiIdle ==
  /\ gsi = [created |-> FALSE, cv |-> FALSE, aborted |-> FALSE]
  /\ gcall = [fn |-> "none", names |-> << >>, ntimes |-> 0, fields |-> << >>,
              tbd |-> << >>, log |-> << >>]

-----------------------------------------------------------------------------
(* ErrorCovarianceTraining::execute: the members handed to BUMP *)

\* Largest ensemble size in the model
MaxNe == 2

\* An ensemble pointer: NULL, or an ensemble of size members
NullEns == [loaded |-> FALSE, size |-> 0]
Ens(size) == [loaded |-> TRUE, size |-> size]

\* The ensembles execute can have set up
Ensembles == {NullEns} \cup {Ens(n) : n \in 0..MaxNe}

\* The training parameters the member loops depend on: the ensemble sizes
\* of the BUMP section, the drivers, and the two ensembles set up from the
\* ensemble sections
TrainingConfs ==
  [ ens1_ne : 0..MaxNe, ens2_ne : 0..MaxNe,
    ens1 : Ensembles, ens2 : Ensembles,
    compute_cov2 : BOOLEAN, compute_cor2 : BOOLEAN, compute_loc2 : BOOLEAN,
    iterative_algo : BOOLEAN ]

\* if (ens1) ens1_ne = ens1->size();
Ens1Ne(conf) == IF conf.ens1.loaded THEN conf.ens1.size ELSE conf.ens1_ne

\* if (ens2) ens2_ne = ens2->size();
Ens2Ne(conf) == IF conf.ens2.loaded THEN conf.ens2.size ELSE conf.ens2_ne

\* The drivers that use the members of ensemble 2
UsesEnsemble2(conf) ==
  conf.compute_cov2 \/ conf.compute_cor2 \/ conf.compute_loc2

\* Mutant of MoreMembers: the loop stops one member early
MoreMembers_StopEarly(i, ne) == i + 1 < ne

\* The condition of the member loops: ie < ens_ne
MoreMembers(i, ne) == i < ne

\* new bump::BUMP(..., ens1_ne, ..., ens2_ne)
NewBUMP(ne1, ne2) ==
  [ens1_ne |-> ne1, ens2_ne |-> ne2, members |-> << >>, ran |-> FALSE]

\* bump->addMember(fieldSet, ie, iens)
AddMember(b, i, iens) ==
  [b EXCEPT !.members = Append(@, [ie |-> i, iens |-> iens])]

\* A call execute makes: the function, the index of the loop pass it is
\* made in, and the ensemble or geometry it is made for (0: none)
TCall(fn, i, iens) == [fn |-> fn, ie |-> i, iens |-> iens]

\* The drivers new_vbal_cov, new_var, new_mom of the iterative algorithm
\* and the sizes of bump->memberConfig1() and bump->memberConfig2(): none
\* set, all set, and the moments alone
IterConf(mc1, mc2, drivers) ==
  [memberConfig1 |-> mc1, memberConfig2 |-> mc2, drivers |-> drivers]

IterConfs ==
  { IterConf(0, 0, {"new_vbal_cov", "new_var", "new_mom"}),
    IterConf(MaxNe, 1, {"new_vbal_cov", "new_var", "new_mom"}),
    IterConf(1, MaxNe, {"new_mom"}),
    IterConf(MaxNe, 0, {}) }

\* The pass of the loop over memberConfig1() for the member i: the member
\* is read, then the updates the drivers ask for are made
Updates1(drivers, i) ==
  ((<< TCall("dx1.read member", i, 1) >>
    \o (IF "new_vbal_cov" \in drivers
        THEN << TCall("updateVbalCov", i, 1) >> ELSE << >>))
    \o (IF "new_var" \in drivers
        THEN << TCall("updateVar", i, 1) >> ELSE << >>))
    \o (IF "new_mom" \in drivers
        THEN << TCall("updateMom", i, 1) >> ELSE << >>)

\* The pass of the loop over memberConfig2() for the member i
Updates2(drivers, i) ==
  << TCall("dx2.read member", i, 2) >>
    \o (IF "new_mom" \in drivers
        THEN << TCall("updateMom", i, 2) >> ELSE << >>)

\* The "apply operators" sections of the model, each the list of its
\* "bump operators": none; two applications, one without operators; three
\* applications, the second with an operator execute does not know
AppConfs ==
  { << >>,
    << << "inverseMultiplyVbal", "inverseMultiplyVbal" >>, << >> >>,
    << << "inverseMultiplyVbal" >>,
       << "inverseMultiplyVbal", "multiplyVbal", "inverseMultiplyVbal" >>,
       << "inverseMultiplyVbal" >> >> }

\* The loop over the operators of the application app from operator k on:
\* inverseMultiplyVbal is applied, any other name aborts
RECURSIVE ApplyOperators(_, _, _, _)
ApplyOperators(ops, k, app, acc) ==
  IF k > Len(ops) THEN acc
  ELSE IF ops[k] = "inverseMultiplyVbal"
  THEN ApplyOperators(ops, k + 1, app,
                      Append(acc, TCall("inverseMultiplyVbal", app, 1)))
  ELSE Append(acc, TCall("ABORT", app, 0))

\* The calls end with ABORT
Aborts(calls) == calls # << >> /\ calls[Len(calls)].fn = "ABORT"

\* Mutant of Application: the output file is written before the operators
\* are looked at
Application_WriteFirst(ops, app) ==
  LET applied == ApplyOperators(ops, 1, app, << >>)
  IN << TCall("dx1.read", app, 1), TCall("dx1.write", app, 1) >> \o applied

\* One pass of the loop over the applications: the input file is read,
\* the operators are applied, the output file is written
Application(ops, app) ==
  LET applied == ApplyOperators(ops, 1, app, << TCall("dx1.read", app, 1) >>)
  IN IF Aborts(applied) THEN applied
     ELSE Append(applied, TCall("dx1.write", app, 1))

\* The parameters that are got on the second geometry
LowResolutionParams ==
  { "loc_a_lr", "loc_rh_lr", "loc_rh1_lr", "loc_rh2_lr", "loc_rhc_lr",
    "loc_rv_lr", "dirac_diag_loc_lr", "nicas_norm_lr", "dirac_nicas_lr",
    "dirac_nicas_bens_lr" }

\* The "output" sections of the model, each the list of its parameters
OutputConfs == { << >>, << "var", "loc_a_lr" >> }

\* One pass of the loop over the output parameters
OutputPass(param, i) ==
  LET g == IF param \in LowResolutionParams THEN 2 ELSE 1
  IN << TCall("getParameter", i, g), TCall("write parameter", i, g) >>

\* What execute has read of the configuration after the constructor of
\* BUMP: nothing yet
NotRead ==
  [iter |-> IterConf(0, 0, {}), appConfs |-> << >>, output |-> << >>]

VARIABLES
  tconf,   \* the parameters of the training application
  tpc,     \* the position of execute
  ie,      \* the index of the member loop
  bump,    \* the BUMP object
  tread,   \* what execute has read of the rest of the configuration
  tcalls   \* the calls execute has made, in order

trVars == << tconf, tpc, ie, bump, tread, tcalls >>

TrIdle ==
  /\ tconf = [ens1_ne |-> 0, ens2_ne |-> 0, ens1 |-> NullEns,
              ens2 |-> NullEns, compute_cov2 |-> FALSE,
              compute_cor2 |-> FALSE, compute_loc2 |-> FALSE,
              iterative_algo |-> FALSE]
  /\ tpc = "idle"
  /\ ie = 0
  /\ bump = NewBUMP(0, 0)
  /\ tread = NotRead
  /\ tcalls = << >>

-----------------------------------------------------------------------------
(* HydroBalSaberBlock: the hydrostatic balance outer block *)

\* Number of model levels of the fields of the block
HydroLevels == 2

\* A field set of the block: the hydrostatic Exner pressure and the
\* virtual potential temperature, one value per level
HFset(hexner, thetav) == [hexner |-> hexner, thetav |-> thetav]

\* The values a level of an increment takes in the model
HValues == {-1, 0, 1}

\* The increments handed to the block
HFsets ==
  { HFset(h, t) : h \in [1..HydroLevels -> HValues],
                  t \in [1..HydroLevels -> HValues] }

\* mo::hexner2ThetavTL: the virtual potential temperature increment is
\* replaced by the vertical difference of the Exner pressure increment
Hexner2ThetavTL(fset) ==
  [fset EXCEPT !.thetav =
     [l \in 1..HydroLevels |->
        IF l < HydroLevels THEN fset.hexner[l] - fset.hexner[l + 1]
        ELSE fset.hexner[l]]]

\* mo::hexner2ThetavAD: the adjoint of hexner2ThetavTL
Hexner2ThetavAD(fset) ==
  [ hexner |->
      [l \in 1..HydroLevels |->
         fset.hexner[l] + fset.thetav[l]
           - (IF l > 1 THEN fset.thetav[l - 1] ELSE 0)],
    thetav |-> [l \in 1..HydroLevels |-> 0] ]

\* The result of a call of the block: the field set on return and the
\* exception thrown, "none" when the call returns normally
HResult(fset, error) == [fset |-> fset, error |-> error]

\* HydroBalSaberBlock::multiply
HydroMultiply(fset) == HResult(Hexner2ThetavTL(fset), "none")

\* HydroBalSaberBlock::multiplyAD
HydroMultiplyAD(fset) == HResult(Hexner2ThetavAD(fset), "none")

\* HydroBalSaberBlock::randomize
HydroRandomize(fset) == HResult(fset, "eckit::NotImplemented")

VARIABLES
  hcall    \* the last call on the block: function, argument, result

hydVars == << hcall >>

HCall(fn, arg, r) == [fn |-> fn, arg |-> arg, fset |-> r.fset, error |-> r.error]

HydIdle ==
  hcall = HCall("constructor", HFset(<< >>, << >>),
                HResult(HFset(<< >>, << >>), "none"))

-----------------------------------------------------------------------------
(* ErrorCovariance::doInverseMultiply, a statement at a time, with the     *)
(* iterations of the solver GMRESR(dxo, dxi, *this, Id, 10, 1.0e-3)        *)

\* The outcomes of the comparison of the relative residual of an
\* iteration with the tolerance 1.0e-3: below it, not below it, or not a
\* number (every comparison with it is false)
Reductions == {"below", "above", "NaN"}

\* Mutant of ContinueIteration: the solver runs to the iteration cap
\* whatever the residual
ContinueIteration_ToTheCap(jiter, reduction) == jiter < GMRESRMaxIter

\* The solver goes on to the next iteration: the cap is not reached and the
\* relative residual of the last iteration is not below the tolerance
ContinueIteration(jiter, reduction) ==
  jiter < GMRESRMaxIter /\ reduction # "below"

\* One iteration of the solver on the covariance self: the preconditioner
\* (the identity) gives the residual r as search direction, the operator
\* (multiply of the covariance self) is applied to it, the estimate
\* becomes xx
GMRESRIteration(self, g, r, xx, reduction) ==
  [g EXCEPT !.jiter = @ + 1,
            !.reduction = reduction,
            !.dxo = xx,
            !.calls = @ \o << [op |-> "Id.multiply", on |-> "Id", arg |-> r],
                              [op |-> "doMultiply", on |-> self, arg |-> r] >>]

VARIABLES
  inverse  \* the call of doInverseMultiply: position, dxi, dxo, iteration

invVars == << inverse >>

InverseCall(p, dxi, dxo) ==
  [pc |-> p, dxi |-> dxi, dxo |-> dxo, jiter |-> 0, reduction |-> "none",
   calls |-> << >>]

InvIdle == inverse = InverseCall("idle", << >>, << >>)

-----------------------------------------------------------------------------
vars ==
  << covVars, facVars, blkVars, wrVars, gsiVars, trVars, hydVars, invVars >>

nonCovVars == << facVars, blkVars, wrVars, gsiVars, trVars, hydVars, invVars >>

nonFacVars == << covVars, blkVars, wrVars, gsiVars, trVars, hydVars, invVars >>

nonBlkVars == << covVars, facVars, wrVars, gsiVars, trVars, hydVars, invVars >>

nonWrVars == << covVars, facVars, blkVars, gsiVars, trVars, hydVars, invVars >>

nonGsiVars == << covVars, facVars, blkVars, wrVars, trVars, hydVars, invVars >>

nonTrVars == << covVars, facVars, blkVars, wrVars, gsiVars, hydVars, invVars >>

nonHydVars == << covVars, facVars, blkVars, wrVars, gsiVars, trVars, invVars >>

nonInvVars == << covVars, facVars, blkVars, wrVars, gsiVars, trVars, hydVars >>

(* Specification of the covariance object *)

CovInit ==
  /\ config \in Configs
  /\ pc = "unbuilt"
  /\ outerBlockChain_ = "none"
  /\ hybridBlockChain_ = <<>>
  /\ hybridScalarWeightSqrt_ = <<>>
  /\ hybridFieldWeightSqrt_ = <<>>
  /\ op = "none"
  /\ dxi_inc = <<>>
  /\ dxo_inc = <<>>
  /\ log = <<>>

FacInit ==
  /\ makers = <<>>
  /\ nextMaker = 1
  /\ fcall = Call("none", "", "none", <<>>)

\* The spectral correlation block of the specifications that are not about
\* it: constructed, never called
BlkIdle ==
  /\ truncation = 0
  /\ zonal_wavenumbers = << 0 >>
  /\ params_ = [calibrationParams |-> "none", readParams |-> TRUE]
  /\ activeVars_ = << >>
  /\ spectralVerticalCorrelations_ = << >>
  /\ rank = 0
  /\ fieldSet = << >>
  /\ bcall = BCall("constructor", << >>, "none", FALSE, NoInfo)
  /\ file = << >>

members == << outerBlockChain_, hybridBlockChain_,
             hybridScalarWeightSqrt_, hybridFieldWeightSqrt_ >>

\* When the constructor throws, the members built so far are destroyed
\* and no object exists
Constructor ==
  /\ pc = "unbuilt"
  /\ \E r \in {ConstructorOp(config)} :
     \E m \in {IF r.error = "none" THEN r.members ELSE NoMembers} :
        /\ outerBlockChain_' = m.outerBlockChain_
        /\ hybridBlockChain_' = m.hybridBlockChain_
        /\ hybridScalarWeightSqrt_' = m.hybridScalarWeightSqrt_
        /\ hybridFieldWeightSqrt_' = m.hybridFieldWeightSqrt_
        /\ pc' = IF r.error = "none" THEN "ready" ELSE "failed"
  /\ op' = "constructor"
  /\ UNCHANGED << config, dxi_inc, dxo_inc, log, nonCovVars >>

doMultiply ==
  /\ pc = "ready"
  /\ \E x \in Inputs : \E r \in {DoMultiplyOp(Self, x)} :
        /\ op' = "doMultiply"
        /\ dxi_inc' = x
        /\ dxo_inc' = r.dxo
        /\ log' = r.log
  /\ UNCHANGED << config, pc, members, nonCovVars >>

doRandomize ==
  /\ pc = "ready"
  /\ \E x \in RandomizeInputs :
     \E samples \in [DOMAIN hybridBlockChain_ -> Samples] :
     \E r \in {DoRandomizeOp(Self, x, samples)} :
        /\ op' = "doRandomize"
        /\ dxi_inc' = x
        /\ dxo_inc' = r.dxo
        /\ log' = r.log
  /\ UNCHANGED << config, pc, members, nonCovVars >>

doInverseMultiply ==
  /\ pc = "ready"
  /\ \E x \in Inputs : \E sol \in {Zero(x), x} :
     \E r \in {DoInverseMultiplyOp(Self, x, sol)} :
        /\ op' = "doInverseMultiply"
        /\ dxi_inc' = x
        /\ dxo_inc' = r.dxo
        /\ log' = r.log
  /\ UNCHANGED << config, pc, members, nonCovVars >>

Init == CovInit /\ FacInit /\ BlkIdle /\ WrIdle /\ GsiIdle /\ TrIdle
        /\ HydIdle /\ InvIdle

Next == Constructor \/ doMultiply \/ doRandomize \/ doInverseMultiply

Spec == Init /\ [][Next]_vars

-----------------------------------------------------------------------------
(* Specification of the factory registry *)

\* The covariance of this specification: not built, one plain chain configured
FactoryInit ==
  /\ FacInit
  /\ CovInit
  /\ config = [central |-> "A", outerBlocks |-> "none", components |-> <<>>]
  /\ BlkIdle
  /\ WrIdle
  /\ GsiIdle
  /\ TrIdle
  /\ HydIdle
  /\ InvIdle

\* A maker object is constructed with the given name
RegisterMaker ==
  /\ nextMaker <= MaxMakers
  /\ \E name \in Names : \E r \in {Register(makers, name, nextMaker)} :
        /\ makers' = r.makers
        /\ fcall' = Call("register", name, r.error, <<>>)
  /\ nextMaker' = nextMaker + 1
  /\ UNCHANGED nonFacVars

create ==
  /\ \E id \in Names : fcall' = Create(makers, id)
  /\ UNCHANGED << makers, nextMaker, nonFacVars >>

createParameters ==
  /\ \E name \in Names : fcall' = CreateParameters(makers, name)
  /\ UNCHANGED << makers, nextMaker, nonFacVars >>

FactoryNext == RegisterMaker \/ create \/ createParameters

FactorySpec == FactoryInit /\ [][FactoryNext]_vars

-----------------------------------------------------------------------------
(* Specification of the spectral correlation block *)

\* The block after its constructor: no correlations are stored
BlockInit ==
  /\ truncation \in 0..MaxTrunc
  /\ \E s \in BlockSetups(truncation) :
       /\ zonal_wavenumbers = s.zonal_wavenumbers
       /\ params_ = s.params
       /\ activeVars_ = s.activeVars
       /\ rank = s.rank
  /\ spectralVerticalCorrelations_ = << >>
  /\ fieldSet = << >>
  /\ bcall = BCall("constructor", << >>, "none", FALSE, NoInfo)
  /\ file = << >>
  /\ CovInit
  /\ config = [central |-> "A", outerBlocks |-> "none", components |-> <<>>]
  /\ FacInit
  /\ WrIdle
  /\ GsiIdle
  /\ TrIdle
  /\ HydIdle
  /\ InvIdle

\* read(): content is what the file of the section read holds
read ==
  /\ \E content \in CovFiles : \E ok \in BOOLEAN :
     \E r \in {SpectralRead(Block, truncation, content, ok)} :
       /\ spectralVerticalCorrelations_' =
            r.self.spectralVerticalCorrelations_
       /\ bcall' = BCall("read", << >>, r.error, FALSE,
                         [NoInfo EXCEPT !.section = ReadSection(params_)])
  /\ fieldSet' = << >>
  /\ UNCHANGED << truncation, zonal_wavenumbers, params_, activeVars_, rank,
                  file, nonBlkVars >>

multiply ==
  /\ \E x \in FieldInputs(NbCoefficients) :
     \E r \in {SpectralMultiply(Block, truncation, zonal_wavenumbers, x)} :
       /\ fieldSet' = r.fieldSet
       /\ bcall' = BCall("multiply", x, r.error, FALSE, NoInfo)
  /\ UNCHANGED << truncation, zonal_wavenumbers, params_, activeVars_,
                  spectralVerticalCorrelations_, rank, file, nonBlkVars >>

randomize ==
  /\ \E x \in FieldInputs(NbCoefficients) :
     \E r \in {SpectralRandomize(Block, truncation, zonal_wavenumbers, x)} :
       /\ fieldSet' = r.fieldSet
       /\ bcall' = BCall("randomize", x, r.error, r.guidance, NoInfo)
  /\ UNCHANGED << truncation, zonal_wavenumbers, params_, activeVars_,
                  spectralVerticalCorrelations_, rank, file, nonBlkVars >>

directCalibration ==
  /\ \E x \in FieldInputs(NbCoefficients) :
     \E r \in {DirectCalibration(Block, << x, x >>)} :
       /\ fieldSet' = << x, x >>
       /\ spectralVerticalCorrelations_' =
            r.self.spectralVerticalCorrelations_
       /\ bcall' = BCall("directCalibration", << x, x >>, r.error,
                         r.guidance, NoInfo)
  /\ UNCHANGED << truncation, zonal_wavenumbers, params_, activeVars_,
                  rank, file, nonBlkVars >>

\* write(): each of the OtherRanks other processes holds what this one
\* holds
write ==
  /\ \E k \in {OtherRanks} : \E ub \in {"abort", "garbage"} :
     \E r \in {SpectralWrite(Block, params_, rank,
                 [v \in DOMAIN spectralVerticalCorrelations_ |->
                    [n \in DOMAIN spectralVerticalCorrelations_[v] |->
                       [i \in 1..levels |-> [j \in 1..levels |->
                          Coef(k, spectralVerticalCorrelations_[v][n][i][j])]]]],
                 ub)} :
       /\ spectralVerticalCorrelations_' =
            r.self.spectralVerticalCorrelations_
       /\ file' = IF r.file # << >> THEN r.file ELSE file
       /\ bcall' = BCall("write", << >>, r.error, FALSE,
                         [NoInfo EXCEPT !.steps = r.steps])
  /\ fieldSet' = << >>
  /\ UNCHANGED << truncation, zonal_wavenumbers, params_, activeVars_,
                  rank, nonBlkVars >>

adjointTest ==
  /\ \E x1, x2 \in FieldInputs(NbCoefficients) : \E tol \in Tolerances :
     \E r \in {AdjointTestOp(Block, truncation, zonal_wavenumbers,
                             CentralVars, tol, x1, x2)} :
       bcall' = BCall("adjointTest", << x1, x2 >>, r.error, FALSE,
                      [dp1 |-> r.dp1, dp2 |-> r.dp2, tolerance |-> tol,
                       test |-> r.test, steps |-> r.steps,
                       section |-> "none"])
  /\ fieldSet' = << >>
  /\ UNCHANGED << truncation, zonal_wavenumbers, params_, activeVars_,
                  spectralVerticalCorrelations_, rank, file, nonBlkVars >>

BlockNext ==
  read \/ multiply \/ randomize \/ directCalibration \/ write \/ adjointTest

BlockSpec == BlockInit /\ [][BlockNext]_vars

-----------------------------------------------------------------------------
(* Specification of write() on all processes: every process holds a block *)
(* with the same active variables, that has read the same file or nothing *)

WriteInit ==
  /\ wpc = [r \in Ranks |-> "idle"]
  /\ \E a \in ActiveVarsChoices : \E content \in CovFiles :
     \E isRead \in BOOLEAN :
       wblock = [r \in Ranks |->
                   IF isRead
                   THEN SpectralRead([activeVars_ |-> a,
                                      spectralVerticalCorrelations_ |-> << >>],
                                     0, content, TRUE).self
                   ELSE [activeVars_ |-> a,
                         spectralVerticalCorrelations_ |-> << >>]]
  /\ toWrite = [r \in Ranks |-> << >>]
  /\ arrived = {}
  /\ wfile = << >>
  /\ wsteps = [r \in Ranks |-> << >>]
  /\ CovInit
  /\ config = [central |-> "A", outerBlocks |-> "none", components |-> <<>>]
  /\ FacInit
  /\ BlkIdle
  /\ GsiIdle
  /\ TrIdle
  /\ HydIdle
  /\ InvIdle

\* The process r takes the step s and goes to p
WStep(r, s, p) ==
  /\ wpc' = [wpc EXCEPT ![r] = p]
  /\ wsteps' = [wsteps EXCEPT ![r] = Append(@, s)]

\* write() is called on r: the correlations are copied
WriteCopy(r) ==
  /\ wpc[r] = "idle"
  /\ toWrite' = [toWrite EXCEPT ![r] =
       CopySpectralFieldSet(wblock[r].spectralVerticalCorrelations_)]
  /\ WStep(r, "copy", "gather")
  /\ UNCHANGED << wblock, arrived, wfile, nonWrVars >>

\* r calls gatherSumSpectralFieldSet and hands in its copy
WriteGatherCall(r) ==
  /\ wpc[r] = "gather"
  /\ arrived' = arrived \cup {r}
  /\ WStep(r, "gather", "inGather")
  /\ UNCHANGED << wblock, toWrite, wfile, nonWrVars >>

\* gatherSumSpectralFieldSet returns on r: at once on a process that is not
\* the root, with the sum once every process has called it on the root
WriteGatherReturn(r) ==
  /\ wpc[r] = "inGather"
  /\ r = 0 => arrived = Ranks
  /\ toWrite' = [toWrite EXCEPT ![r] =
       IF r = 0 THEN SumOver(toWrite, Ranks) ELSE @]
  /\ wpc' = [wpc EXCEPT ![r] = "shape"]
  /\ UNCHANGED << wblock, arrived, wfile, wsteps, nonWrVars >>

\* dim_sizes: the shape of the first field is looked up; then the process
\* goes on to the file if WritesFile, and returns otherwise
WriteShape(r) ==
  /\ wpc[r] = "shape"
  /\ IF DOMAIN toWrite[r] = {}
     THEN WStep(r, "eckit::Exception", "failed")
     ELSE IF WritesFile(r, 0)
     THEN WStep(r, "shape", "header")
     ELSE WStep(r, "shape", "done")
  /\ UNCHANGED << wblock, toWrite, arrived, wfile, nonWrVars >>

\* atlasArrayWriteHeader
WriteHeader(r) ==
  /\ wpc[r] = "header"
  /\ wfile' = Append(wfile, [rank |-> r, op |-> "header", field |-> "",
                             data |-> << >>])
  /\ WStep(r, "header", "data")
  /\ UNCHANGED << wblock, toWrite, arrived, nonWrVars >>

\* atlasArrayWriteData, for every field in turn
WriteData(r) ==
  /\ wpc[r] = "data"
  /\ LET w == FileWrites(wblock[r].activeVars_, toWrite[r])
     IN wfile' = wfile \o [t \in 1..(Len(w) - 1) |->
                             [rank |-> r, op |-> w[t + 1].op,
                              field |-> w[t + 1].field,
                              data |-> w[t + 1].data]]
  /\ WStep(r, "data", "done")
  /\ UNCHANGED << wblock, toWrite, arrived, nonWrVars >>

WriteNext ==
  \E r \in Ranks :
    \/ WriteCopy(r)
    \/ WriteGatherCall(r)
    \/ WriteGatherReturn(r)
    \/ WriteShape(r)
    \/ WriteHeader(r)
    \/ WriteData(r)

WriteSpec == WriteInit /\ [][WriteNext]_vars

-----------------------------------------------------------------------------
(* Specification of the GSI covariance *)

GsiInit ==
  /\ gsi \in [created : {FALSE}, cv : BOOLEAN, aborted : {FALSE}]
  /\ gcall = [fn |-> "none", names |-> << >>, ntimes |-> 0, fields |-> << >>,
              tbd |-> << >>, log |-> << >>]
  /\ CovInit
  /\ config = [central |-> "A", outerBlocks |-> "none", components |-> <<>>]
  /\ FacInit
  /\ BlkIdle
  /\ WrIdle
  /\ TrIdle
  /\ HydIdle
  /\ InvIdle

gsiCreate ==
  /\ ~gsi.created /\ ~gsi.aborted
  /\ \E ntimes \in 1..MaxTimes : \E bkgmock \in BOOLEAN :
     \E firstguess \in [1..ntimes -> GsiFieldSets(MetGuess2d \o MetGuess3d)] :
     \E constructed \in {{}, {"tv"}} :
     \E r \in {GsiCreate(ntimes, firstguess, bkgmock, constructed)} :
       /\ gcall' = [fn |-> "create", names |-> MetGuess2d \o MetGuess3d,
                    ntimes |-> ntimes,
                    fields |-> firstguess, tbd |-> r.tbd, log |-> r.log]
       /\ gsi' = [gsi EXCEPT !.created = ~Aborted(r),
                             !.aborted = Aborted(r)]
  /\ UNCHANGED nonGsiVars

gsiMultiply ==
  /\ gsi.created /\ ~gsi.aborted
  /\ \E ntimes \in 1..MaxTimes :
     \E fields \in [1..ntimes ->
                      GsiFieldSets(GVars2d(gsi.cv) \o GVars3d(gsi.cv))] :
     \E r \in {GsiMultiply(gsi.cv, ntimes, fields)} :
       /\ gcall' = [fn |-> "multiply",
                    names |-> GVars2d(gsi.cv) \o GVars3d(gsi.cv),
                    ntimes |-> ntimes,
                    fields |-> fields, tbd |-> r.tbd, log |-> r.log]
       /\ gsi' = [gsi EXCEPT !.aborted = Aborted(r)]
  /\ UNCHANGED nonGsiVars

GsiNext == gsiCreate \/ gsiMultiply

GsiSpec == GsiInit /\ [][GsiNext]_vars

-----------------------------------------------------------------------------
(* Specification of the training application, a statement at a time *)

TrainingInit ==
  /\ CovInit
  /\ config = [central |-> "A", outerBlocks |-> "none", components |-> <<>>]
  /\ tconf \in TrainingConfs
  /\ tpc = "setup"
  /\ ie = 0
  /\ bump = NewBUMP(0, 0)
  /\ tread = NotRead
  /\ tcalls = << >>
  /\ FacInit
  /\ BlkIdle
  /\ WrIdle
  /\ GsiIdle
  /\ HydIdle
  /\ InvIdle

\* The ensemble sizes are chosen and BUMP is constructed
trConstructor ==
  /\ tpc = "setup"
  /\ bump' = NewBUMP(Ens1Ne(tconf), Ens2Ne(tconf))
  /\ tcalls' = << TCall("BUMP", 0, 0) >>
  /\ tpc' = "ensemble 1"
  /\ ie' = 0
  /\ UNCHANGED << tconf, tread, nonTrVars >>

\* One pass of the loop over the members of ensemble 1
trAddMember1 ==
  /\ tpc = "ensemble 1"
  /\ tconf.ens1.loaded
  /\ MoreMembers(ie, bump.ens1_ne)
  /\ bump' = AddMember(bump, ie, 1)
  /\ tcalls' = Append(tcalls, TCall("addMember", ie, 1))
  /\ ie' = ie + 1
  /\ UNCHANGED << tconf, tpc, tread, nonTrVars >>

\* The loop over ensemble 1 is skipped or has ended
trEnd1 ==
  /\ tpc = "ensemble 1"
  /\ ~(tconf.ens1.loaded /\ MoreMembers(ie, bump.ens1_ne))
  /\ tpc' = "ensemble 2"
  /\ ie' = 0
  /\ UNCHANGED << tconf, bump, tread, tcalls, nonTrVars >>

\* One pass of the loop over the members of ensemble 2
trAddMember2 ==
  /\ tpc = "ensemble 2"
  /\ tconf.ens2.loaded
  /\ UsesEnsemble2(tconf)
  /\ MoreMembers(ie, bump.ens2_ne)
  /\ bump' = AddMember(bump, ie, 2)
  /\ tcalls' = Append(tcalls, TCall("addMember", ie, 2))
  /\ ie' = ie + 1
  /\ UNCHANGED << tconf, tpc, tread, nonTrVars >>

\* The loop over ensemble 2 is skipped or has ended; the iterative
\* algorithm, when asked for, adds no member: it looks up the members BUMP
\* is configured with
trEnd2 ==
  /\ tpc = "ensemble 2"
  /\ ~(tconf.ens2.loaded /\ UsesEnsemble2(tconf)
       /\ MoreMembers(ie, bump.ens2_ne))
  /\ IF tconf.iterative_algo
     THEN /\ tpc' = "load 1"
          /\ \E ic \in IterConfs : tread' = [tread EXCEPT !.iter = ic]
     ELSE /\ tpc' = "run drivers"
          /\ UNCHANGED tread
  /\ ie' = 0
  /\ UNCHANGED << tconf, bump, tcalls, nonTrVars >>

\* One pass of the loop over bump->memberConfig1()
trLoad1 ==
  /\ tpc = "load 1"
  /\ MoreMembers(ie, tread.iter.memberConfig1)
  /\ tcalls' = tcalls \o Updates1(tread.iter.drivers, ie)
  /\ ie' = ie + 1
  /\ UNCHANGED << tconf, tpc, bump, tread, nonTrVars >>

\* The loop over bump->memberConfig1() is skipped or has ended
trEndLoad1 ==
  /\ tpc = "load 1"
  /\ ~MoreMembers(ie, tread.iter.memberConfig1)
  /\ tpc' = "load 2"
  /\ ie' = 0
  /\ UNCHANGED << tconf, bump, tread, tcalls, nonTrVars >>

\* One pass of the loop over bump->memberConfig2()
trLoad2 ==
  /\ tpc = "load 2"
  /\ MoreMembers(ie, tread.iter.memberConfig2)
  /\ tcalls' = tcalls \o Updates2(tread.iter.drivers, ie)
  /\ ie' = ie + 1
  /\ UNCHANGED << tconf, tpc, bump, tread, nonTrVars >>

\* The loop over bump->memberConfig2() is skipped or has ended
trEndLoad2 ==
  /\ tpc = "load 2"
  /\ ~MoreMembers(ie, tread.iter.memberConfig2)
  /\ tpc' = "run drivers"
  /\ ie' = 0
  /\ UNCHANGED << tconf, bump, tread, tcalls, nonTrVars >>

\* bump->runDrivers()
trRunDrivers ==
  /\ tpc = "run drivers"
  /\ bump' = [bump EXCEPT !.ran = TRUE]
  /\ tcalls' = Append(tcalls, TCall("runDrivers", 0, 0))
  /\ tpc' = "partial dealloc"
  /\ UNCHANGED << tconf, ie, tread, nonTrVars >>

\* bump->partialDealloc(); the applications are read from the BUMP section
trPartialDealloc ==
  /\ tpc = "partial dealloc"
  /\ tcalls' = Append(tcalls, TCall("partialDealloc", 0, 0))
  /\ \E a \in AppConfs : tread' = [tread EXCEPT !.appConfs = a]
  /\ tpc' = "apply operators"
  /\ ie' = 0
  /\ UNCHANGED << tconf, bump, nonTrVars >>

\* One pass of the loop over the applications; ABORT ends execute
trApply ==
  /\ tpc = "apply operators"
  /\ ie < Len(tread.appConfs)
  /\ \E calls \in {Application(tread.appConfs[ie + 1], ie)} :
       /\ tcalls' = tcalls \o calls
       /\ tpc' = IF Aborts(calls) THEN "aborted" ELSE tpc
  /\ ie' = ie + 1
  /\ UNCHANGED << tconf, bump, tread, nonTrVars >>

\* The loop over the applications has ended; the output parameters are
\* read
trEndApply ==
  /\ tpc = "apply operators"
  /\ ie >= Len(tread.appConfs)
  /\ \E o \in OutputConfs : tread' = [tread EXCEPT !.output = o]
  /\ tpc' = "write output"
  /\ ie' = 0
  /\ UNCHANGED << tconf, bump, tcalls, nonTrVars >>

\* One pass of the loop over the output parameters
trOutput ==
  /\ tpc = "write output"
  /\ ie < Len(tread.output)
  /\ tcalls' = tcalls \o OutputPass(tread.output[ie + 1], ie)
  /\ ie' = ie + 1
  /\ UNCHANGED << tconf, tpc, bump, tread, nonTrVars >>

\* The loop over the output parameters has ended; execute returns 0
trReturn ==
  /\ tpc = "write output"
  /\ ie >= Len(tread.output)
  /\ tpc' = "done"
  /\ UNCHANGED << tconf, ie, bump, tread, tcalls, nonTrVars >>

TrainingNext ==
  \/ trConstructor
  \/ trAddMember1
  \/ trEnd1
  \/ trAddMember2
  \/ trEnd2
  \/ trLoad1
  \/ trEndLoad1
  \/ trLoad2
  \/ trEndLoad2
  \/ trRunDrivers
  \/ trPartialDealloc
  \/ trApply
  \/ trEndApply
  \/ trOutput
  \/ trReturn

TrainingSpec == TrainingInit /\ [][TrainingNext]_vars

-----------------------------------------------------------------------------
(* Specification of the hydrostatic balance block *)

HydroInit ==
  /\ HydIdle
  /\ InvIdle
  /\ CovInit
  /\ config = [central |-> "A", outerBlocks |-> "none", components |-> <<>>]
  /\ FacInit
  /\ BlkIdle
  /\ WrIdle
  /\ GsiIdle
  /\ TrIdle

hydroMultiply ==
  /\ \E fset \in HFsets : hcall' = HCall("multiply", fset, HydroMultiply(fset))
  /\ UNCHANGED nonHydVars

hydroMultiplyAD ==
  /\ \E fset \in HFsets :
       hcall' = HCall("multiplyAD", fset, HydroMultiplyAD(fset))
  /\ UNCHANGED nonHydVars

hydroRandomize ==
  /\ \E fset \in HFsets :
       hcall' = HCall("randomize", fset, HydroRandomize(fset))
  /\ UNCHANGED nonHydVars

HydroNext == hydroMultiply \/ hydroMultiplyAD \/ hydroRandomize

HydroSpec == HydroInit /\ [][HydroNext]_vars

-----------------------------------------------------------------------------
(* Specification of doInverseMultiply on a constructed covariance *)

\* The covariances the solver is run on: the two single chains and a
\* hybrid of both with the weights 0.3 and 0.7
InverseConfigs ==
  { c \in PlainConfigs : c.central \notin FailingChains } \cup
  { [central |-> "Hybrid", outerBlocks |-> "T",
     components |-> << CmpConf("A", WeightConf(TRUE, 30, FALSE)),
                       CmpConf("B", WeightConf(TRUE, 70, FALSE)) >>] }

InverseInit ==
  /\ config \in InverseConfigs
  /\ pc = "ready"
  /\ outerBlockChain_ = Construct(config).outerBlockChain_
  /\ hybridBlockChain_ = Construct(config).hybridBlockChain_
  /\ hybridScalarWeightSqrt_ = Construct(config).hybridScalarWeightSqrt_
  /\ hybridFieldWeightSqrt_ = Construct(config).hybridFieldWeightSqrt_
  /\ op = "constructor"
  /\ dxi_inc = <<>>
  /\ dxo_inc = <<>>
  /\ log = <<>>
  /\ InvIdle
  /\ FacInit
  /\ BlkIdle
  /\ WrIdle
  /\ GsiIdle
  /\ TrIdle
  /\ HydIdle

\* doInverseMultiply(dxi, dxo) is called; dxo holds what the caller left
invCall ==
  /\ inverse.pc = "idle"
  /\ \E x \in Inputs : \E old \in Inputs :
       inverse' = InverseCall("called", x, old)
  /\ UNCHANGED nonInvVars

\* dxo.zero()
invZero ==
  /\ inverse.pc = "called"
  /\ inverse' = [inverse EXCEPT !.pc = "GMRESR", !.dxo = Zero(inverse.dxi)]
  /\ UNCHANGED nonInvVars

\* One iteration of GMRESR
invIterate ==
  /\ inverse.pc = "GMRESR"
  /\ ContinueIteration(inverse.jiter, inverse.reduction)
  /\ \E r \in {inverse.dxi} : \E xx \in {Zero(inverse.dxi), inverse.dxi} :
     \E reduction \in Reductions :
       inverse' = GMRESRIteration(Self, inverse, r, xx, reduction)
  /\ UNCHANGED nonInvVars

\* GMRESR and doInverseMultiply return
invReturn ==
  /\ inverse.pc = "GMRESR"
  /\ ~ContinueIteration(inverse.jiter, inverse.reduction)
  /\ inverse' = [inverse EXCEPT !.pc = "done"]
  /\ UNCHANGED nonInvVars

InverseNext == invCall \/ invZero \/ invIterate \/ invReturn

\* A call that has started runs on
InverseSpec == InverseInit /\ [][InverseNext]_vars /\ WF_vars(InverseNext)

-----------------------------------------------------------------------------
(* Properties of ErrorCovariance *)

Components == DOMAIN hybridBlockChain_

HasOuter == outerBlockChain_ # "none"

IsWeightEvent(e) == e.op \in {"scalarWeight", "fieldWeight"}

\* The calls of the log that are not weight scalings, as <<operation, jj>>
Skeleton(l) ==
  LET k == SelectSeq(l, LAMBDA e : ~IsWeightEvent(e))
  IN [i \in DOMAIN k |-> << k[i].op, k[i].jj >>]

\* The argument of the call o of component jj in the log
ArgOf(l, o, jj) ==
  l[CHOOSE i \in DOMAIN l : l[i].op = o /\ l[i].jj = jj].arg

\* The position of the call o of component jj in the log; the position of
\* the call before the first component for jj = 0
PosOf(l, o, jj) ==
  IF jj = 0 THEN (IF HasOuter THEN 1 ELSE 0)
  ELSE CHOOSE i \in DOMAIN l : l[i].op = o /\ l[i].jj = jj

\* Number of calls o of component jj in the log
CountOf(l, o, jj) ==
  Cardinality({i \in DOMAIN l : l[i].op = o /\ l[i].jj = jj})

\* f scaled by the stored square-root weights of component jj
Weighted(f, jj) ==
  LET a == ScalarMul(f, hybridScalarWeightSqrt_[jj])
  IN IF hybridFieldWeightSqrt_[jj] = <<>> THEN a
     ELSE FieldMul(a, hybridFieldWeightSqrt_[jj])

\* <<o, 1>>, <<"add", 1>>, ..., <<o, n>>, <<"add", n>>
RECURSIVE ComponentSteps(_, _)
ComponentSteps(o, n) ==
  IF n = 0 THEN <<>>
  ELSE ComponentSteps(o, n - 1) \o << <<o, n>>, <<"add", n>> >>

\* Sum of the arguments of the "add" calls of components 1..n
RECURSIVE SumAdded(_, _, _)
SumAdded(l, zero, n) ==
  IF n = 0 THEN zero
  ELSE FieldAdd(SumAdded(l, zero, n - 1), ArgOf(l, "add", n))

IsZero(f) == \A i \in DOMAIN f : f[i] = 0

\* C1: doMultiply applies, in this order: the shared outer chain's adjoint
\* once, to a copy of the input; per component, in turn, the square-root
\* weights, the chain's multiply, the same weights again, the addition to the
\* sum; the shared outer chain forward once, to the sum.  Without a shared
\* outer chain the first and the last step are absent and the rest is the
\* same.  (A scaling by exactly 1.0 or by an empty field weight is skipped
\* both times: it is the identity.)
C1_MultiplyOrder ==
  op = "doMultiply" =>
    LET n    == Len(hybridBlockChain_)
        dxi  == IF HasOuter THEN ApplyOuterBlocksAD(outerBlockChain_, dxi_inc)
                ELSE dxi_inc
        sum  == SumAdded(log, Zero(dxi_inc), n)
    IN /\ Skeleton(log) =
            ((IF HasOuter THEN << <<"applyOuterBlocksAD", 0>> >> ELSE <<>>)
             \o ComponentSteps("multiply", n))
            \o (IF HasOuter THEN << <<"applyOuterBlocks", 0>> >> ELSE <<>>)
       /\ HasOuter => /\ log[1] = Ev("applyOuterBlocksAD", 0, dxi_inc)
                       /\ log[Len(log)] = Ev("applyOuterBlocks", 0, sum)
                       /\ dxo_inc = ApplyOuterBlocks(outerBlockChain_, sum)
       /\ ~HasOuter => dxo_inc = sum
       /\ \A jj \in 1..n :
            /\ ArgOf(log, "multiply", jj) = Weighted(dxi, jj)
            /\ ArgOf(log, "add", jj) =
                 Weighted(ChainMultiply(hybridBlockChain_[jj],
                                        ArgOf(log, "multiply", jj)), jj)
            /\ \A w \in {"scalarWeight", "fieldWeight"} :
                 LET before == {i \in DOMAIN log :
                                  /\ log[i].op = w /\ log[i].jj = jj
                                  /\ PosOf(log, "add", jj - 1) < i
                                  /\ i < PosOf(log, "multiply", jj)}
                     after  == {i \in DOMAIN log :
                                  /\ log[i].op = w /\ log[i].jj = jj
                                  /\ PosOf(log, "multiply", jj) < i
                                  /\ i < PosOf(log, "add", jj)}
                 IN /\ Cardinality(before) = Cardinality(after)
                    /\ Cardinality(before) <= 1
                    /\ CountOf(log, w, jj) = 2 * Cardinality(before)

\* Witness of C1: a doMultiply with a shared outer chain, two or more
\* components, scalar and field weight scalings, on a non-zero input
C1_Witness ==
  /\ op = "doMultiply"
  /\ HasOuter
  /\ Len(hybridBlockChain_) >= 2
  /\ \E i, j \in DOMAIN log :
       log[i].op = "scalarWeight" /\ log[j].op = "fieldWeight"
  /\ ~IsZero(dxi_inc)
  /\ ~HasNaN(dxo_inc)

DegenerateHybrid(conf) ==
  /\ conf.central = "Hybrid"
  /\ conf.outerBlocks = "none"
  /\ Len(conf.components) = 1
  /\ WeightValue(conf.components[1].weight) = One
  /\ ~conf.components[1].weight.hasFile

\* The non-hybrid configuration of the chain of a one-component hybrid
PlainOf(conf) ==
  [central |-> conf.components[1].covariance, outerBlocks |-> "none",
   components |-> <<>>]

\* The stored state of the non-hybrid case: one chain, weight 1.0, empty
\* field weight
PlainState(chain) ==
  [ outerBlockChain_ |-> "none",
    hybridBlockChain_ |-> << chain >>,
    hybridScalarWeightSqrt_ |-> << One >>,
    hybridFieldWeightSqrt_ |-> << <<>> >> ]

ScaleWeight(conf, i, k) ==
  [conf EXCEPT !.components[i].weight.hasValue = TRUE,
               !.components[i].weight.value =
                  k * WeightValue(conf.components[i].weight)]

\* The contribution of component i to the output of doMultiply on input x
\* of the covariance built from conf: its summand, through the shared
\* outer chain's forward transform
Contribution(conf, i, x) ==
  LET self == Construct(conf)
      dxi  == IF self.outerBlockChain_ # "none"
              THEN ApplyOuterBlocksAD(self.outerBlockChain_, x) ELSE x
      fset == MultiplyComponent(self, i, dxi).fset
  IN IF self.outerBlockChain_ # "none"
     THEN ApplyOuterBlocks(self.outerBlockChain_, fset) ELSE fset

\* k times the field set f
Times(k, f) == [i \in DOMAIN f |-> Coef(k, f[i])]

\* The factors the weights are scaled by
Factors == {-1, 0, 2, 4}

\* The square root of w is stored without rounding
ExactSqrt(w) == w >= 0 /\ Mul(Sqrt(w), Sqrt(w)) = w

C5_Original ==
  (op = "doMultiply" /\ IsZero(dxi_inc)) => IsZero(dxo_inc)

\* No configured scalar weight is negative
NonNegativeWeights ==
  \A i \in DOMAIN config.components :
    WeightValue(config.components[i].weight) >= 0

\* C5 (amended): doMultiply maps the zero input to the zero output for any
\* components and any non-negative weights, as for the two components of
\* weights 0.3 and 0.7
C5_ZeroInput ==
  (op = "doMultiply" /\ IsZero(dxi_inc) /\ NonNegativeWeights)
    => IsZero(dxo_inc)

\* Witness of C5: a hybrid of two components with weights 0.3 and 0.7,
\* applied to the zero input, gives the zero output
C5_Witness ==
  /\ op = "doMultiply"
  /\ config.central = "Hybrid"
  /\ Len(config.components) = 2
  /\ config.components[1].weight = WeightConf(TRUE, 30, FALSE)
  /\ config.components[2].weight = WeightConf(TRUE, 70, FALSE)
  /\ IsZero(dxi_inc)
  /\ IsZero(dxo_inc)

\* C6: doRandomize, for each component in turn, calls the chain's randomize
\* on a fresh zero field set, scales the result once by the stored
\* square-root weights and adds it to the sum; only then the shared outer
\* chain is applied forward, once; its adjoint is never applied
C6_RandomizeOrder ==
  op = "doRandomize" =>
    LET n   == Len(hybridBlockChain_)
        sum == SumAdded(log, Zero(dxi_inc), n)
    IN /\ Skeleton(log) =
            ComponentSteps("randomize", n)
            \o (IF HasOuter THEN << <<"applyOuterBlocks", 0>> >> ELSE <<>>)
       /\ \A i \in DOMAIN log : log[i].op # "applyOuterBlocksAD"
       /\ HasOuter => /\ log[Len(log)] = Ev("applyOuterBlocks", 0, sum)
                       /\ dxo_inc = ApplyOuterBlocks(outerBlockChain_, sum)
       /\ ~HasOuter => dxo_inc = sum
       /\ \A jj \in 1..n :
            /\ IsZero(ArgOf(log, "randomize", jj))
            /\ \E sample \in Samples :
                 ArgOf(log, "add", jj) =
                   Weighted(ChainRandomize(hybridBlockChain_[jj],
                              ArgOf(log, "randomize", jj), sample), jj)
            /\ \A w \in {"scalarWeight", "fieldWeight"} :
                 /\ CountOf(log, w, jj) <= 1
                 /\ \A i \in DOMAIN log :
                      (log[i].op = w /\ log[i].jj = jj) =>
                        /\ PosOf(log, "randomize", jj) < i
                        /\ i < PosOf(log, "add", jj)
            /\ CountOf(log, "scalarWeight", jj) = 1
                 <=> hybridScalarWeightSqrt_[jj] # One
            /\ CountOf(log, "fieldWeight", jj) = 1
                 <=> hybridFieldWeightSqrt_[jj] # <<>>

\* Witness of C6: a doRandomize with a shared outer chain, two or more
\* components, a scalar and a field weight scaling, and a non-zero sum
C6_Witness ==
  /\ op = "doRandomize"
  /\ HasOuter
  /\ Len(hybridBlockChain_) >= 2
  /\ \E i, j \in DOMAIN log :
       log[i].op = "scalarWeight" /\ log[j].op = "fieldWeight"
  /\ ~HasNaN(dxo_inc)
  /\ ~IsZero(dxo_inc)

\* The stored weights are the square roots of the configured ones
StoredWeightsAreSqrt ==
  IF config.central = "Hybrid"
  THEN /\ Len(hybridScalarWeightSqrt_) = Len(config.components)
       /\ Len(hybridFieldWeightSqrt_) = Len(config.components)
       /\ \A i \in DOMAIN config.components :
            LET w == config.components[i].weight
            IN /\ hybridScalarWeightSqrt_[i] =
                    Sqrt(IF w.hasValue THEN w.value ELSE One)
               /\ hybridFieldWeightSqrt_[i] =
                    IF w.hasFile
                    THEN [p \in DOMAIN w.file |-> Sqrt(w.file[p])]
                    ELSE <<>>
  ELSE /\ hybridScalarWeightSqrt_ = << One >>
       /\ hybridFieldWeightSqrt_ = << <<>> >>

\* C7: after construction the stored scalar weight of every component is
\* the square root of the configured value (of 1.0 without one) and the
\* stored field weight the point-wise square root of the weight file (empty
\* without one); doMultiply, doRandomize and doInverseMultiply never change
\* the stored weights
C7_StoredWeights ==
  [][ /\ pc' = "ready" => StoredWeightsAreSqrt'
      /\ pc = "ready" =>
           /\ hybridScalarWeightSqrt_' = hybridScalarWeightSqrt_
           /\ hybridFieldWeightSqrt_' = hybridFieldWeightSqrt_ ]_vars

\* Witness of C7: doInverseMultiply has run on a covariance with a
\* configured scalar weight other than 1.0 and a weight file
C7_Witness ==
  /\ op = "doInverseMultiply"
  /\ \E i \in DOMAIN config.components :
       /\ config.components[i].weight.hasValue
       /\ config.components[i].weight.hasFile
       /\ hybridScalarWeightSqrt_[i] = 2 * One
       /\ hybridFieldWeightSqrt_[i] = << One, 2 * One >>

\* The orders (permutations) of 1..n
OrdersOf(n) ==
  {p \in [1..n -> 1..n] : \A i, j \in 1..n : p[i] = p[j] => i = j}

\* The covariance with its (chain, scalar weight, field weight) triples
\* listed in the order p
Permuted(self, p) ==
  [ outerBlockChain_ |-> self.outerBlockChain_,
    hybridBlockChain_ |-> [j \in DOMAIN p |-> self.hybridBlockChain_[p[j]]],
    hybridScalarWeightSqrt_ |->
      [j \in DOMAIN p |-> self.hybridScalarWeightSqrt_[p[j]]],
    hybridFieldWeightSqrt_ |->
      [j \in DOMAIN p |-> self.hybridFieldWeightSqrt_[p[j]]] ]

\* C8: the output of doMultiply does not depend on the order in which the
\* components are listed
C8_OrderIndependent ==
  op = "doMultiply" =>
    \A p \in OrdersOf(Len(hybridBlockChain_)) :
      DoMultiplyOp(Permuted(Self, p), dxi_inc).dxo = dxo_inc

\* Witness of C8: a doMultiply with two or more components whose
\* contributions differ, with a non-zero finite output
C8_Witness ==
  /\ op = "doMultiply"
  /\ Len(hybridBlockChain_) >= 2
  /\ ArgOf(log, "add", 1) # ArgOf(log, "add", 2)
  /\ hybridBlockChain_[1] # hybridBlockChain_[2]
  /\ ~HasNaN(dxo_inc)
  /\ ~IsZero(dxo_inc)

-----------------------------------------------------------------------------
(* Properties of SaberCentralBlockFactory *)

\* C9: registering a maker under a name that is already registered raises
\* an error at registration and leaves the registry unchanged; whatever is
\* registered, a name keeps the maker that was registered first
C9_DuplicateRegistration ==
  [][ /\ \A n \in DOMAIN makers :
           n \in DOMAIN makers' /\ makers'[n] = makers[n]
      /\ (fcall'.fn = "register" /\ fcall'.name \in DOMAIN makers) =>
           /\ fcall'.error = "eckit::Exception"
           /\ makers' = makers
      /\ (fcall'.fn = "register" /\ fcall'.name \notin DOMAIN makers) =>
           /\ fcall'.error = "none"
           /\ fcall'.name \in DOMAIN makers'
           /\ makers'[fcall'.name] = nextMaker ]_vars

\* Witness of C9: a registration under a registered name has failed, the
\* name still mapped to an earlier maker
C9_Witness ==
  /\ fcall.fn = "register"
  /\ fcall.error = "eckit::Exception"
  /\ fcall.name \in DOMAIN makers
  /\ makers[fcall.name] < nextMaker - 1
  /\ Cardinality(DOMAIN makers) >= 2

\* C10: create and createParameters with a name that is not registered
\* raise an error, invoke no maker and return nothing; with a registered
\* name they invoke exactly the maker registered under it; the registry
\* is unchanged either way
C10_Lookup ==
  [][ fcall'.fn \in {"create", "createParameters"} =>
        /\ makers' = makers
        /\ IF fcall'.name \in DOMAIN makers
           THEN /\ fcall'.error = "none"
                /\ fcall'.invoked =
                     << [maker |-> makers[fcall'.name],
                         method |-> IF fcall'.fn = "create" THEN "make"
                                    ELSE "makeParameters"] >>
           ELSE /\ fcall'.error # "none"
                /\ fcall'.invoked = <<>> ]_vars

\* Witness of C10: a lookup of an unregistered name has failed while other
\* names are registered
C10_Witness ==
  /\ fcall.fn \in {"create", "createParameters"}
  /\ fcall.name \notin DOMAIN makers
  /\ fcall.error # "none"
  /\ makers # <<>>

\* The makers of the sequence regs, each [name, this], registered in turn
\* into the registry reg; the error is the first one raised
RECURSIVE RegisterAll(_, _)
RegisterAll(reg, regs) ==
  IF regs = <<>> THEN [makers |-> reg, error |-> "none"]
  ELSE LET r == Register(reg, Head(regs).name, Head(regs).this)
       IN IF r.error # "none" THEN r
          ELSE RegisterAll(r.makers, Tail(regs))

\* The orders in which the makers this[n] of the names of S can be
\* registered
RegistrationOrders(S, this) ==
  {[i \in DOMAIN p |-> [name |-> p[i], this |-> this[p[i]]]] :
     p \in {q \in [1..Cardinality(S) -> S] :
              \A i, j \in DOMAIN q : q[i] = q[j] => i = j}}

\* Makers with the names of S that are not the makers registered so far
NewMakers(S) ==
  CHOOSE f \in [S -> nextMaker..(nextMaker + Cardinality(S))] :
    \A a, b \in S : f[a] = f[b] => a = b

\* C11: registration is order-independent: makers with pairwise distinct
\* names register without error in every order and give the same
\* name-to-maker mapping, so that every create finds the same maker; this
\* holds of the names registered so far (registered again into an empty
\* registry) and of any names not registered yet (added to the registry)
C11_OrderIndependent ==
  /\ \A regs \in RegistrationOrders(DOMAIN makers, makers) :
       /\ RegisterAll(<<>>, regs) = [makers |-> makers, error |-> "none"]
       /\ \A id \in Names :
            Create(RegisterAll(<<>>, regs).makers, id) = Create(makers, id)
  /\ \A S \in SUBSET (Names \ DOMAIN makers) :
       \A r1, r2 \in RegistrationOrders(S, NewMakers(S)) :
         /\ RegisterAll(makers, r1).error = "none"
         /\ RegisterAll(makers, r1) = RegisterAll(makers, r2)
         /\ DOMAIN RegisterAll(makers, r1).makers = DOMAIN makers \cup S
         /\ \A id \in Names :
              Create(RegisterAll(makers, r1).makers, id) =
              Create(RegisterAll(makers, r2).makers, id)

\* Witness of C11: three makers are registered, the one named "ID" last,
\* and a create has found the maker of another name
C11_Witness ==
  /\ DOMAIN makers = Names
  /\ makers["ID"] > makers["spectral correlation"]
  /\ makers["spectral correlation"] > makers["BUMP_NICAS"]
  /\ fcall.fn = "create"
  /\ fcall.error = "none"
  /\ fcall.invoked[1].maker = makers["BUMP_NICAS"]

-----------------------------------------------------------------------------
(* Properties of the spectral correlation block and of the adjoint test *)

\* <A x, y>: the dot product of the block's multiply of x with y, NaN
\* standing in when the multiply fails
MultiplyDot(x, y) ==
  LET m == SpectralMultiply(Block, truncation, zonal_wavenumbers, x)
  IN IF m.error # "none" THEN NaN
     ELSE DotVars(m.fieldSet, y, CentralVars, 1)

MultiplyFails(x) ==
  SpectralMultiply(Block, truncation, zonal_wavenumbers, x).error # "none"

\* |dp1 - dp2| / |0.5 * (dp1 + dp2)| < tol, in the arithmetic of the reals
\* extended by x/0 = infinity and 0/0 = NaN
RelativeDifferenceBelow(dp1, dp2, tol) ==
  /\ ~IsNaN(dp1) /\ ~IsNaN(dp2)
  /\ dp1 + dp2 # 0
  /\ 2 * One * (IF dp1 >= dp2 THEN dp1 - dp2 ELSE dp2 - dp1)
       < tol * (IF dp1 + dp2 >= 0 THEN dp1 + dp2 ELSE 0 - (dp1 + dp2))

\* C12: adjointTest returns normally if and only if both multiplies ran and
\* |dp1 - dp2| / |0.5 (dp1 + dp2)| < adjointTolerance with dp1 = <A x1, x2>
\* and dp2 = <A x2, x1>; when the multiplies ran and the test fails, the
\* error raised is the adjoint test failure that names the block
C12_AdjointTestGate ==
  bcall.fn = "adjointTest" =>
    LET x1 == bcall.arg[1]
        x2 == bcall.arg[2]
        ran == ~MultiplyFails(x1) /\ ~MultiplyFails(x2)
        below == RelativeDifferenceBelow(MultiplyDot(x1, x2),
                                         MultiplyDot(x2, x1),
                                         bcall.info.tolerance)
    IN /\ bcall.error = "none" <=> (ran /\ below)
       /\ (ran /\ ~below) =>
            /\ bcall.error =
                 "eckit::Exception: Adjoint test failure for block"
            /\ bcall.info.test = "failed"
       /\ ran => /\ bcall.info.dp1 = MultiplyDot(x1, x2)
                 /\ bcall.info.dp2 = MultiplyDot(x2, x1)

\* Witness of C12: the test of a block that has read its correlations has
\* failed with two different, finite dot products whose mean is not zero
C12_Witness ==
  /\ bcall.fn = "adjointTest"
  /\ DOMAIN spectralVerticalCorrelations_ # {}
  /\ bcall.info.test = "failed"
  /\ bcall.error = "eckit::Exception: Adjoint test failure for block"
  /\ bcall.info.dp1 # bcall.info.dp2
  /\ bcall.info.dp1 + bcall.info.dp2 # 0
  /\ ~IsNaN(bcall.info.dp1) /\ ~IsNaN(bcall.info.dp2)

\* C13: a multiply called on a block that has been constructed and has not
\* read its correlations is rejected with an error and changes nothing
C13_Original ==
  [][ (bcall.fn = "constructor" /\ bcall'.fn = "multiply") =>
        /\ bcall'.error # "none"
        /\ fieldSet' = bcall'.arg ]_vars

\* C14: every call of randomize and of directCalibration, in every state of
\* the block, logs the guidance, raises the not-supported error and leaves
\* its argument and the stored correlations as they were
C14_Unsupported ==
  [][ bcall'.fn \in {"randomize", "directCalibration"} =>
        /\ bcall'.error = "eckit::FunctionalityNotSupported"
        /\ bcall'.guidance
        /\ fieldSet' = bcall'.arg
        /\ spectralVerticalCorrelations_' = spectralVerticalCorrelations_
    ]_vars

\* Witness of C14: randomize has failed on a block that has read its
\* correlations and whose multiply would have changed the argument
C14_Witness ==
  /\ bcall.fn = "randomize"
  /\ bcall.error = "eckit::FunctionalityNotSupported"
  /\ DOMAIN spectralVerticalCorrelations_ # {}
  /\ SpectralMultiply(Block, truncation, zonal_wavenumbers,
                      bcall.arg).fieldSet # bcall.arg

Identity == << << One, 0 >>, << 0, One >> >>

\* The block has one active variable and stores the identity correlation
\* matrix for it at every total wavenumber
SingleVariableIdentity ==
  /\ Len(activeVars_) = 1
  /\ DOMAIN spectralVerticalCorrelations_ = {activeVars_[1]}
  /\ \A n \in DOMAIN spectralVerticalCorrelations_[activeVars_[1]] :
       spectralVerticalCorrelations_[activeVars_[1]][n] = Identity

\* C15 as stated: with the identity correlation matrix at every total
\* wavenumber, multiply leaves every input field set unchanged
C15_Original ==
  (bcall.fn = "multiply" /\ SingleVariableIdentity) =>
    (bcall.error = "none" /\ fieldSet = bcall.arg)

\* C15, amended: with the identity correlation matrix at every total
\* wavenumber, multiply divides every spectral coefficient of total
\* wavenumber n of the active variable by (2n+1) * (N+1), N the truncation,
\* and leaves the other variables unchanged; the input is unchanged when
\* the truncation is 0
C15_IdentityScaling ==
  (bcall.fn = "multiply" /\ SingleVariableIdentity) =>
    LET var == activeVars_[1]
        n == TotalWavenumbers(zonal_wavenumbers, 1, truncation)
    IN /\ bcall.error = "none"
       /\ DOMAIN fieldSet = DOMAIN bcall.arg
       /\ \A v \in DOMAIN fieldSet \ {var} : fieldSet[v] = bcall.arg[v]
       /\ DOMAIN fieldSet[var] = DOMAIN bcall.arg[var]
       /\ \A k \in DOMAIN fieldSet[var] : \A r \in 1..levels :
            fieldSet[var][k][r] =
              DivN(bcall.arg[var][k][r], (2 * n[k] + 1) * (truncation + 1))
       /\ truncation = 0 => fieldSet = bcall.arg

\* Witness of C15: a multiply with the identity correlations and a
\* truncation above 0 has changed its input
C15_Witness ==
  /\ bcall.fn = "multiply"
  /\ SingleVariableIdentity
  /\ truncation > 0
  /\ bcall.error = "none"
  /\ fieldSet # bcall.arg
  /\ fieldSet[activeVars_[1]][1][1] * 6 = bcall.arg[activeVars_[1]][1][1]

\* C17: no call other than read changes the stored correlations: multiply,
\* randomize, write (which gathers into a copy), directCalibration and
\* adjointTest leave them as they were, in every state of the block
C17_StoredImmutable ==
  [][ bcall'.fn # "read" =>
        spectralVerticalCorrelations_' = spectralVerticalCorrelations_
    ]_vars

\* Witness of C17: the root process has written the gathered sum, which
\* differs from the correlations it stores
C17_Witness ==
  /\ bcall.fn = "write"
  /\ bcall.error = "none"
  /\ rank = 0
  /\ DOMAIN spectralVerticalCorrelations_ # {}
  /\ Len(file) >= 2
  /\ file[2].data # spectralVerticalCorrelations_[file[2].field]

-----------------------------------------------------------------------------
(* Properties of write() on all processes *)

\* Number of times the process r has taken the step s
StepCount(r, s) == Cardinality({i \in DOMAIN wsteps[r] : wsteps[r][i] = s})

\* The position of the first step s of the process r, 0 when there is none
StepPos(r, s) ==
  IF StepCount(r, s) = 0 THEN 0
  ELSE CHOOSE i \in DOMAIN wsteps[r] :
         wsteps[r][i] = s /\ \A j \in 1..(i - 1) : wsteps[r][j] # s

\* C16: every process calls the gather exactly once in write(), whatever
\* its rank (never more than once, and once as soon as it is past the copy);
\* only the root process 0 writes to the file, the header first and then
\* the data of every field, and only after the gather, that is once every
\* process has handed in its copy; the other processes write nothing
C16_RankGatedWrite ==
  /\ \A r \in Ranks :
       /\ StepCount(r, "gather") <= 1
       /\ wpc[r] \notin {"idle", "gather"} => StepCount(r, "gather") = 1
       /\ r # 0 => StepCount(r, "header") = 0 /\ StepCount(r, "data") = 0
       /\ StepCount(r, "header") > 0 =>
            /\ StepPos(r, "gather") > 0
            /\ StepPos(r, "gather") < StepPos(r, "header")
       /\ StepCount(r, "data") > 0 =>
            /\ StepPos(r, "header") > 0
            /\ StepPos(r, "header") < StepPos(r, "data")
  /\ \A i \in DOMAIN wfile :
       /\ wfile[i].rank = 0
       /\ wfile[i].op = (IF i = 1 THEN "header" ELSE "data")
       /\ i > 1 =>
            /\ wfile[i].field = wblock[0].activeVars_[i - 1]
            /\ wfile[i].data =
                 SumOver([r \in Ranks |->
                            wblock[r].spectralVerticalCorrelations_],
                         Ranks)[wfile[i].field]
  /\ wfile # << >> => arrived = Ranks

\* Witness of C16: every process has returned from write(), each after one
\* gather; the root has written the header and the data of two fields, the
\* sum over the processes, and a process that is not the root has written
\* nothing
C16_Witness ==
  /\ \A r \in Ranks : wpc[r] = "done" /\ StepCount(r, "gather") = 1
  /\ Len(wfile) = 3
  /\ wfile[2].data # wblock[0].spectralVerticalCorrelations_[wfile[2].field]
  /\ \E r \in Ranks : r # 0 /\ wsteps[r] = << "copy", "gather", "shape" >>

-----------------------------------------------------------------------------
(* The convolution of SpectralCorrelation::multiply *)

\* The number of coefficients of the zonal wavenumbers before the jm-th
RECURSIVE CoefficientsBefore(_, _, _)
CoefficientsBefore(zonal, jm, N) ==
  IF jm = 1 THEN 0
  ELSE CoefficientsBefore(zonal, jm - 1, N) + 2 * (N - zonal[jm - 1] + 1)

\* The triples (jm, n1, img) of the loops of multiply
Triples ==
  { t \in (DOMAIN zonal_wavenumbers) \X (0..truncation) \X {0, 1} :
      zonal_wavenumbers[t[1]] <= t[2] }

\* The spectral coefficient of the triple t
CoefficientOf(t) ==
  CoefficientsBefore(zonal_wavenumbers, t[1], truncation)
    + 2 * (t[2] - zonal_wavenumbers[t[1]]) + t[3] + 1

\* y[r] = sum over c of corr[n][r][c] * x[c] / ((2n+1) * samples)
Convolved(corr, x, n) ==
  LET norm == (2 * n + 1) * Cardinality(DOMAIN corr)
  IN [r \in 1..2 |->
        Add(DivN(Mul(corr[n][r][1], x[1]), norm),
            DivN(Mul(corr[n][r][2], x[2]), norm))]

ActiveVarsSet == {activeVars_[i] : i \in DOMAIN activeVars_}

\* C22: a multiply that returns normally has replaced, for every active
\* variable and every triple of a zonal wavenumber m, a total wavenumber n
\* with m <= n <= N and a real or imaginary component, the level column x
\* of the coefficient of the triple by y, y[r] = sum over c of
\* corr[n][r][c] * x[c] / ((2n+1) * number of correlation samples); the
\* triples and the coefficients of a field correspond one to one, in the
\* order of the loops; the fields of the other variables are unchanged.
C22_ColumnConvolution ==
  (bcall.fn = "multiply" /\ bcall.error = "none") =>
    /\ DOMAIN fieldSet = DOMAIN bcall.arg
    /\ \A var \in ActiveVarsSet :
         /\ DOMAIN fieldSet[var] = DOMAIN bcall.arg[var]
         /\ {CoefficientOf(t) : t \in Triples} = DOMAIN fieldSet[var]
         /\ \A t, u \in Triples :
              CoefficientOf(t) = CoefficientOf(u) => t = u
         /\ \A t \in Triples :
              fieldSet[var][CoefficientOf(t)] =
                Convolved(spectralVerticalCorrelations_[var],
                          bcall.arg[var][CoefficientOf(t)], t[2])
    /\ \A var \in DOMAIN fieldSet \ ActiveVarsSet :
         fieldSet[var] = bcall.arg[var]

\* A multiply with correlations that are not the identity, on two zonal
\* wavenumbers, has changed every coefficient column of an active variable
C22_Witness ==
  /\ bcall.fn = "multiply"
  /\ bcall.error = "none"
  /\ truncation >= 1
  /\ Len(zonal_wavenumbers) >= 2
  /\ "psi" \in ActiveVarsSet
  /\ spectralVerticalCorrelations_["psi"][1] # CovI
  /\ Cardinality(Triples) > 2
  /\ \A t \in Triples :
       fieldSet["psi"][CoefficientOf(t)] # bcall.arg["psi"][CoefficientOf(t)]

-----------------------------------------------------------------------------
(* The section SpectralCorrelation::read reads from *)

\* The stored correlations hold one field per active variable, of one
\* matrix per total wavenumber bin
OneFieldPerActiveVar(stored) ==
  /\ DOMAIN stored = ActiveVarsSet
  /\ \A v \in DOMAIN stored : DOMAIN stored[v] = 0..truncation

\* The stored correlations of a read of the file content by a block that
\* held nothing
FreshRead(content) ==
  SpectralRead([Block EXCEPT !.spectralVerticalCorrelations_ = << >>],
               truncation, content, TRUE).self.spectralVerticalCorrelations_

-----------------------------------------------------------------------------
(* The sequence of SaberCentralBlockBase::adjointTest *)

\* The steps of the adjoint test, in order
AdjointTestSteps ==
  << "random 1", "random 2", "copy 1", "copy 2",
     "multiply 1", "multiply 2", "dot 1", "dot 2" >>

\* The multiply of the block on the k-th field set drawn by the last call
Multiplied(k) ==
  SpectralMultiply(Block, truncation, zonal_wavenumbers, bcall.arg[k])

\* C23: the adjoint test draws two field sets, copies each, applies the
\* forward multiply to the two originals and nothing else (multiply is
\* called twice, multiplyAD never), then takes dp1 as the dot product of
\* the first multiplied set with the copy of the second, which still holds
\* what was drawn, and dp2 as that of the second multiplied set with the
\* copy of the first; an exception of multiply ends the sequence there.
C23_AdjointTestSequence ==
  bcall.fn = "adjointTest" =>
    LET steps == bcall.info.steps
        multiplies == {k \in DOMAIN steps :
                         steps[k] \in {"multiply 1", "multiply 2"}}
    IN /\ Len(steps) <= Len(AdjointTestSteps)
       /\ steps = SubSeq(AdjointTestSteps, 1, Len(steps))
       /\ \A k \in DOMAIN steps : steps[k] # "multiplyAD"
       /\ Multiplied(1).error # "none" =>
            /\ steps = SubSeq(AdjointTestSteps, 1, 5)
            /\ bcall.error = Multiplied(1).error
       /\ (Multiplied(1).error = "none" /\ Multiplied(2).error # "none") =>
            /\ steps = SubSeq(AdjointTestSteps, 1, 6)
            /\ bcall.error = Multiplied(2).error
       /\ (Multiplied(1).error = "none" /\ Multiplied(2).error = "none") =>
            /\ steps = AdjointTestSteps
            /\ Cardinality(multiplies) = 2
            /\ bcall.info.dp1 =
                 DotVars(Multiplied(1).fieldSet, bcall.arg[2], CentralVars, 1)
            /\ bcall.info.dp2 =
                 DotVars(Multiplied(2).fieldSet, bcall.arg[1], CentralVars, 1)

\* An adjoint test has run to its end on two different field sets that
\* multiply changes
C23_Witness ==
  /\ bcall.fn = "adjointTest"
  /\ bcall.info.steps = AdjointTestSteps
  /\ bcall.arg[1] # bcall.arg[2]
  /\ Multiplied(1).fieldSet # bcall.arg[1]
  /\ Multiplied(2).fieldSet # bcall.arg[2]
  /\ bcall.info.dp1 # 0
  /\ bcall.info.dp2 # 0

\* C27 as stated: an adjoint test whose two dot products are equal passes,
\* whatever the positive tolerance, also when both are zero.
C27_Original ==
  (/\ bcall.fn = "adjointTest"
   /\ bcall.info.test # "none"
   /\ bcall.info.tolerance > 0
   /\ ~IsNaN(bcall.info.dp1)
   /\ bcall.info.dp1 = bcall.info.dp2) =>
    (bcall.info.test = "passed" /\ bcall.error = "none")

-----------------------------------------------------------------------------
(* Construction failure of ErrorCovariance *)

\* The number of component chains the configuration asks for
ConfiguredComponents(conf) ==
  IF conf.central = "Hybrid" THEN Len(conf.components) ELSE 1

\* Some chain of the configuration cannot be built
SomeChainFails(conf) ==
  \/ conf.central \in FailingChains
  \/ conf.outerBlocks \in FailingChains
  \/ FailingComponents(conf) # {}

\* C19: when the constructor of the shared outer chain or of any component
\* chain throws, the constructor of ErrorCovariance throws: the object on
\* which doMultiply, doRandomize or doInverseMultiply runs holds every
\* configured component and the configured outer chain, and no operation
\* runs when a chain failed.
C19_AllOrNothing ==
  /\ pc = "ready" =>
       /\ ~SomeChainFails(config)
       /\ Len(hybridBlockChain_) = ConfiguredComponents(config)
       /\ Len(hybridScalarWeightSqrt_) = ConfiguredComponents(config)
       /\ Len(hybridFieldWeightSqrt_) = ConfiguredComponents(config)
       /\ outerBlockChain_ = config.outerBlocks
  /\ op \in {"doMultiply", "doRandomize", "doInverseMultiply"} =>
       pc = "ready"
  /\ (pc # "unbuilt" /\ SomeChainFails(config)) =>
       /\ pc = "failed"
       /\ op = "constructor"
       /\ Self = NoMembers

\* The constructor has thrown on the second component of a hybrid
\* covariance, after the first component was built
C19_Witness ==
  /\ pc = "failed"
  /\ config.central = "Hybrid"
  /\ Len(config.components) >= 2
  /\ FailingComponents(config) = {2}
  /\ Len(ConstructorOp(config).members.hybridBlockChain_) = 1

\* C26: every constructed ErrorCovariance holds at least one component, the
\* chains, the square-root scalar weights and the square-root field weights
\* are vectors of one length, and without "Hybrid" that length is 1 and
\* there is no shared outer chain.
C26_Original ==
  pc = "ready" =>
    /\ Len(hybridBlockChain_) >= 1
    /\ Len(hybridScalarWeightSqrt_) = Len(hybridBlockChain_)
    /\ Len(hybridFieldWeightSqrt_) = Len(hybridBlockChain_)
    /\ config.central # "Hybrid" =>
         /\ Len(hybridBlockChain_) = 1
         /\ outerBlockChain_ = "none"

-----------------------------------------------------------------------------
(* Properties of the GSI covariance *)

\* The fields GSI or the fix-up of multiply can construct
Recovered == {"tv", "prse"}

\* The positions of the events of kind o in the log of the last call
EventsAt(o) == {k \in DOMAIN gcall.log : gcall.log[k].op = o}

\* The names that the field set of the time slot whose status the list
\* holds lacks and that nothing recovers
MissingNames ==
  {gcall.names[i] : i \in DOMAIN gcall.names} \
    (gcall.fields[gcall.ntimes] \cup Recovered)

MissingAt(ii) ==
  {gcall.names[i] : i \in DOMAIN gcall.names} \ gcall.fields[ii]

\* C28: create, when the background is not mocked, aborts with the
\* missing-fields error whenever a guess field that GSI cannot construct is
\* absent from the first guess at some time slot, the last or an earlier
\* one.
C28_Original ==
  (gcall.fn = "create" /\ gcall.tbd # << >>) =>
    ((\E ii \in 1..gcall.ntimes : MissingAt(ii) \ Recovered # {}) =>
       gsi.aborted)

\* The names whose bare entry triggers a recovery branch of the fix-up
\* helper: of cvfix_ for the control vector, of svfix_ for the state vector
Triggers(cv) == IF cv THEN {"tv", "ts"} ELSE {"prse", "tv"}

\* The need list of the last multiply before the fix-up helper runs
NeedBeforeFix ==
  CheckSlots(gcall.names, gcall.fields, 1, gcall.ntimes,
             [tbd |-> [i \in DOMAIN gcall.names |->
                         Tbd("unfilled-", gcall.names[i])],
              log |-> << >>]).tbd

\* C30: every entry of the need list that triggers a recovery branch of
\* cvfix_ or svfix_ is marked filled when the helper returns, in the modes
\* 'adm' and 'tlm', and a multiply whose only unfilled entries are such
\* entries does not abort.
C30_Original ==
  gcall.fn = "multiply" =>
    LET need == NeedBeforeFix
        triggering == {i \in DOMAIN need :
                         need[i].prefix = "" /\ need[i].name \in Triggers(gsi.cv)}
    IN /\ \A which \in {"adm", "tlm"} : \A i \in triggering :
            LET fixed == IF gsi.cv THEN Cvfix(need, which)
                         ELSE Svfix(need, which)
            IN fixed[i].prefix = "filled-"
       /\ (\A i \in DOMAIN need : NotFilled(need[i]) => i \in triggering) =>
            ~gsi.aborted

-----------------------------------------------------------------------------
(* Properties of the training application *)

\* The member indices added to ensemble iens, in the order of the calls
MembersOf(iens) ==
  LET added == SelectSeq(bump.members, LAMBDA m : m.iens = iens)
  IN [k \in DOMAIN added |-> added[k].ie]

\* The indices 0 .. ne-1 in ascending order
Ascending(ne) == [k \in 1..ne |-> k - 1]

\* The calls of ensemble 1 all come before those of ensemble 2
Ensemble1First ==
  \A j, k \in DOMAIN bump.members :
    (bump.members[j].iens = 1 /\ bump.members[k].iens = 2) => j < k

\* execute has reached bump->runDrivers()
BeforeRunDrivers == tpc = "run drivers"

\* C20 as stated: when runDrivers is reached, the members added to each
\* ensemble are the indices 0 .. ne-1, in ascending order, of the size
\* handed to the BUMP constructor for that ensemble.
C20_Original ==
  BeforeRunDrivers =>
    /\ MembersOf(1) = Ascending(bump.ens1_ne)
    /\ MembersOf(2) = Ascending(bump.ens2_ne)

\* C20: when runDrivers is reached, an ensemble that execute has set up
\* (and, for ensemble 2, that one of compute_cov2, compute_cor2,
\* compute_loc2 uses) has had the indices 0 .. ne-1 added in ascending
\* order under its own ensemble id, ne being its size, which is the size
\* handed to the BUMP constructor; for any other ensemble no member is
\* added, whatever size the constructor was handed.
C20_MembersAdded ==
  BeforeRunDrivers =>
    /\ bump.ens1_ne = Ens1Ne(tconf)
    /\ bump.ens2_ne = Ens2Ne(tconf)
    /\ MembersOf(1) = IF tconf.ens1.loaded
                      THEN Ascending(tconf.ens1.size) ELSE << >>
    /\ MembersOf(2) = IF tconf.ens2.loaded /\ UsesEnsemble2(tconf)
                      THEN Ascending(tconf.ens2.size) ELSE << >>
    /\ \A k \in DOMAIN bump.members : bump.members[k].iens \in {1, 2}
    /\ Ensemble1First
    /\ ~bump.ran

\* runDrivers is reached with every member of both ensembles added
C20_Witness ==
  /\ BeforeRunDrivers
  /\ tconf.ens1.loaded /\ tconf.ens1.size = MaxNe
  /\ tconf.ens2.loaded /\ tconf.ens2.size = MaxNe
  /\ Len(bump.members) = 2 * MaxNe

-----------------------------------------------------------------------------
(* The order of the calls of ErrorCovarianceTraining::execute *)

\* The part of execute a call belongs to: 1 the constructor of BUMP, 2 and
\* 3 the members of ensemble 1 and 2, 4 and 5 the updates of the iterative
\* algorithm for ensemble 1 and 2, 6 runDrivers, 7 partialDealloc, 8 the
\* applications of operators, 9 the output parameters
Phase(c) ==
  CASE c.fn = "BUMP" -> 1
    [] c.fn = "addMember" -> 1 + c.iens
    [] c.fn \in {"dx1.read member", "dx2.read member", "updateVbalCov",
                 "updateVar", "updateMom"} -> 3 + c.iens
    [] c.fn = "runDrivers" -> 6
    [] c.fn = "partialDealloc" -> 7
    [] c.fn \in {"dx1.read", "inverseMultiplyVbal", "ABORT", "dx1.write"} -> 8
    [] c.fn \in {"getParameter", "write parameter"} -> 9

\* The positions of the calls of fn
CallsOf(fn) == {k \in DOMAIN tcalls : tcalls[k].fn = fn}

\* The positions of the calls of fn made in the loop pass i
CallsIn(fn, i) == {k \in CallsOf(fn) : tcalls[k].ie = i}

\* The positions of execute after bump->runDrivers()
AfterRunDrivers ==
  {"partial dealloc", "apply operators", "write output", "aborted", "done"}

\* The applications (counted from 0) that name an operator other than
\* inverseMultiplyVbal
WrongApplications ==
  {i \in 0..(Len(tread.appConfs) - 1) :
     \E k \in DOMAIN tread.appConfs[i + 1] :
       tread.appConfs[i + 1][k] # "inverseMultiplyVbal"}

\* C29: the calls of execute come in this order: the constructor of BUMP,
\* the addMember calls of ensemble 1, those of ensemble 2, with the
\* iterative algorithm only the update calls of ensemble 1 and then those
\* of ensemble 2, runDrivers once, partialDealloc once, the applications
\* of operators, the output parameters; no addMember or update call comes
\* after runDrivers; an operator other than inverseMultiplyVbal aborts
\* execute before the output of its application is written.
C29_ExecuteOrder ==
  /\ \A k \in 1..(Len(tcalls) - 1) :
       Phase(tcalls[k]) <= Phase(tcalls[k + 1])
  /\ tpc = "setup" => tcalls = << >>
  /\ tpc # "setup" => (tcalls # << >> /\ CallsOf("BUMP") = {1})
  /\ Cardinality(CallsOf("runDrivers")) =
       (IF tpc \in AfterRunDrivers THEN 1 ELSE 0)
  /\ Cardinality(CallsOf("partialDealloc")) =
       (IF tpc \in AfterRunDrivers \ {"partial dealloc"} THEN 1 ELSE 0)
  /\ ~tconf.iterative_algo =>
       \A k \in DOMAIN tcalls : Phase(tcalls[k]) \notin {4, 5}
  /\ \A k \in CallsOf("ABORT") :
       /\ k = Len(tcalls)
       /\ tpc = "aborted"
       /\ tcalls[k].ie \in WrongApplications
       /\ CallsIn("dx1.write", tcalls[k].ie) = {}
  /\ tpc = "aborted" => Aborts(tcalls)
  /\ tpc \in {"write output", "done"} =>
       /\ WrongApplications = {}
       /\ \A i \in 0..(Len(tread.appConfs) - 1) :
            /\ Cardinality(CallsIn("dx1.read", i)) = 1
            /\ Cardinality(CallsIn("inverseMultiplyVbal", i)) =
                 Len(tread.appConfs[i + 1])
            /\ Cardinality(CallsIn("dx1.write", i)) = 1
  /\ tpc = "done" =>
       /\ Cardinality(CallsOf("getParameter")) = Len(tread.output)
       /\ \A k \in CallsOf("getParameter") :
            /\ k < Len(tcalls)
            /\ tcalls[k + 1] =
                 TCall("write parameter", tcalls[k].ie, tcalls[k].iens)

\* execute has aborted in the second application, after the members of
\* both ensembles were added, the updates of both were made and the output
\* of the first application was written
C29_Witness ==
  /\ tpc = "aborted"
  /\ tconf.iterative_algo
  /\ Cardinality(CallsOf("addMember")) = 2 * MaxNe
  /\ Cardinality(CallsOf("updateMom")) = MaxNe + 1
  /\ tcalls[Len(tcalls)].ie = 1
  /\ CallsIn("dx1.write", 0) # {}

-----------------------------------------------------------------------------
(* Properties of the hydrostatic balance block *)

\* C21 as stated: randomize on the hydrostatic balance block returns
\* normally with the input field set propagated through the transform of
\* the block, that of multiply.
C21_Original ==
  hcall.fn = "randomize" =>
    /\ hcall.error = "none"
    /\ hcall.fset = HydroMultiply(hcall.arg).fset

-----------------------------------------------------------------------------
(* Properties of doInverseMultiply *)

\* The calls of doMultiply the solver has made
OperatorCalls ==
  SelectSeq(inverse.calls, LAMBDA c : c.op = "doMultiply")

\* The state of a call of doInverseMultiply: the output is zero when the
\* solver starts, the solver has made one call of the covariance per
\* iteration, at most 10, and no iteration after one whose relative
\* residual is below the tolerance; it returns at the cap or after such
\* an iteration
InverseCallOk ==
  /\ inverse.jiter <= GMRESRMaxIter
  /\ GMRESRMaxIter = 10
  /\ Len(OperatorCalls) = inverse.jiter
  /\ Len(inverse.calls) = 2 * inverse.jiter
  /\ \A k \in DOMAIN inverse.calls :
       inverse.calls[k].op = (IF k % 2 = 1 THEN "Id.multiply" ELSE "doMultiply")
  /\ \A k \in DOMAIN OperatorCalls : OperatorCalls[k].on = Self
  /\ (inverse.pc = "GMRESR" /\ inverse.jiter = 0) =>
       inverse.dxo = Zero(inverse.dxi)
  /\ inverse.pc = "done" =>
       (inverse.jiter = GMRESRMaxIter \/ inverse.reduction = "below")
  /\ (inverse.pc = "done" /\ inverse.jiter = 0) => GMRESRMaxIter = 0

\* A step of the call leaves the input increment as it is, and an
\* iteration is made only while the residual is not below the tolerance
InverseStepOk ==
  /\ inverse.pc # "idle" => inverse'.dxi = inverse.dxi
  /\ inverse'.jiter # inverse.jiter =>
       /\ inverse'.jiter = inverse.jiter + 1
       /\ inverse.reduction # "below"

\* C25: doInverseMultiply zeroes the output, then runs the solver with the
\* covariance as operator and the identity as preconditioner; the solver
\* stops after at most 10 iterations or as soon as the relative residual
\* is below the tolerance; every call returns, and the input increment is
\* never changed.
C25_InverseTerminates ==
  /\ []InverseCallOk
  /\ [][InverseStepOk]_vars
  /\ (inverse.pc = "called") ~> (inverse.pc = "done")

\* The solver has returned at the cap, the residual never below the
\* tolerance
C25_Witness ==
  /\ inverse.pc = "done"
  /\ inverse.jiter = GMRESRMaxIter
  /\ inverse.reduction = "NaN"
  /\ config.central = "Hybrid"
  /\ inverse.dxi = << One, -2 * One >>

====
